---------------------------- MODULE Spec2Model ----------------------------
(***************************************************************************)
(* Cluster resource quota admission (package clusterresourcequota).        *)
(*                                                                         *)
(* clusterQuotaAdmission.Validate, lockAquisition, waitForSyncedStore and  *)
(* ByName are translated from the plugin's source.  The quota evaluator    *)
(* the plugin builds with resourcequota.NewQuotaEvaluator, the quota       *)
(* accessor (newQuotaAccessor) and the lock factory (NewDefaultLockFactory)*)
(* are not part of the plugin's file; they are modelled from the design    *)
(* document (sections 4.1, 4.2 and 4.4).                                   *)
(*                                                                         *)
(* Image policy admission (package imagepolicy).  resolutionConfig, the    *)
(* imageResolutionCache, mutationPreventer and imagePolicyPlugin.admit are *)
(* translated from the plugin's source; accept, the rules accepter and the *)
(* image reference mutators are not part of the plugin's file and are      *)
(* modelled from the design document (sections 4.5, 4.6) and the plugin's  *)
(* tests.  The two plugins share no state: each has its own specification  *)
(* over its own variables.  The cache of resolved images is specified      *)
(* three times: call by call (ResolverSpec), statement by statement for    *)
(* concurrent resolutions (ConcurrentSpec), and as the LRU of 128 entries  *)
(* it is built on (LruSpec; the LRU library is not part of the source).    *)
(*                                                                         *)
(* Scope authorizer (package scopeauthorizer).  Authorize is translated    *)
(* from its source; the scope evaluators behind ScopesToRules are not part *)
(* of the file.                                                            *)
(*                                                                         *)
(* ImageStreamTag REST (package imagestreamtag).  Create and Delete are    *)
(* translated from their source, one action for each store call of their  *)
(* retry loops; the image stream registry is a compare-and-swap store on   *)
(* the resource version.                                                   *)
(***************************************************************************)
EXTENDS Integers, Sequences, FiniteSets, TLC

(* ------------------------------ bounds -------------------------------- *)
\* quantities a request may add to one resource: 0..MaxDelta
MaxDelta == 1
\* writes of the concurrent writer (it only moves the version token)
MaxExtWrites == 3
\* store reads that may fail during one run
MaxFetchErrors == 1
\* resolution rules of an image policy configuration
MaxRules == 2
\* the clock of the image resolution cache runs from 0 to MaxNow, in half minutes
MaxNow == 3
\* length of a quotas slice handed to lockAquisition on its own
MaxQuotas == 3
\* scopes a user carries
MaxScopes == 2
\* writes of other clients to the image stream during the tag calls
MaxStreamWrites == 10
\* calls of the image stream registry that fail with another error
MaxStreamErrors == 1
\* digests resolved against the LRU of the image resolution cache
MaxDigests == 130

\* concurrent Validate calls, one per goroutine of the hosting server
Procs == {1, 2}
\* quota document names; the order of the integers is the order of the names
Docs == {1, 2}
Resources == {"cpu", "pods"}
Namespaces == {"", "nsA", "nsB", "nsC"}

\* retries of one document's fetch-check-write cycle ("a small retry count")
MaxRetries == 2

NoProc == 0
NoDoc == 0

(* ------------------------------ state --------------------------------- *)
VARIABLES
    pc,                \* position of each Validate call
    attr,              \* admission.Attributes of the call: subresource, namespace, usage delta
    clusterQuotaSynced,\* q.clusterQuotaSynced()
    namespaceSynced,   \* q.namespaceSynced()
    timeout,           \* the channel of time.After(timeToWaitForCacheSync) has fired (while
                       \* the call waits, and after a wait that returned false)
    evaluator,         \* the call whose q.init.Do constructed q.evaluator (NoProc: not constructed)
    built,             \* number of times the evaluator was constructed
    invoked,           \* the call has entered q.evaluator.Evaluate
    created,           \* names the lock factory holds a lock for
    mutex,             \* the holder of each name's lock (NoProc when unlocked)
    quotas,            \* the quotas slice handed to lockAquisition, as the call sees it
    locks,             \* the locks slice of the call's lockAquisition
    rel,               \* index i of the release function's loop
    store,             \* authoritative store: hard, used and version of each document
    initUsed,          \* the usage each document started with
    fetched,           \* the call's copy of each document, from its latest fetch
    cur,               \* index in quotas of the document being fetched or written
    retries,           \* retries of the current document's cycle started by the call
    conflicts,         \* version conflicts the call has met on the current document
    wrote,             \* documents the call's compare-and-swap has written
    result,            \* what the call returns: the evaluator's outcome as Validate hands it on
    extWrites,         \* writes made by the concurrent writer
    fetchErrors,       \* store reads that have failed
    now,               \* the time now() returns, in half minutes
    images,            \* image store: the image of each digest it holds
    stream,            \* image store: the image stream repo/mysql
    cache,             \* imageResolutionCache.cache: digest -> imageCacheEntry
    resolved,          \* the latest call of resolveImageReference: arguments, results, store reads
    plugin,            \* the imagePolicyPlugin: whether it has been constructed, its config
    decision,          \* the latest answers of its resolutionConfig, with what it was asked
    adm,               \* the object under admission, and what the latest Admit or Validate
                       \* of it did
    authz,             \* the latest call of scopeAuthorizer.Authorize: attributes and results
    imageStream,       \* image stream registry: the one image stream the tag calls address
    istag,             \* each ImageStreamTag Create or Delete call: arguments, position in the
                       \* loop, its copy of the stream, what its store calls returned, result
    streamWrites,      \* writes of other clients to the image stream
    streamErrors,      \* calls of the image stream registry that have failed otherwise
    resolving,         \* each resolution a goroutine is making: position, kind, its now(),
                       \* the image it read or was served, what it returns
    readAt,            \* when the image of each cache entry was read from the store
    lru                \* the cache as the LRU keeps it: keys and entries, latest use first

\* the variables of the quota plugin and those of the image policy plugin
quotaVars == <<pc, attr, clusterQuotaSynced, namespaceSynced, timeout, evaluator, built,
               invoked, created, mutex, quotas, locks, rel, store, initUsed, fetched, cur,
               retries, conflicts, wrote, result, extWrites, fetchErrors>>
storeImgVars == <<images, stream>>
resolverVars == <<now, images, stream, cache, resolved>>
policyVars == <<plugin, decision>>
imgVars == <<resolverVars, policyVars, adm>>

\* the variables of the other components
istVars == <<imageStream, istag, streamWrites, streamErrors>>
cacheVars == <<resolving, readAt, lru>>
restVars == <<authz, istVars, cacheVars>>

vars == <<quotaVars, imgVars, restVars>>

syncVars == <<clusterQuotaSynced, namespaceSynced>>
onceVars == <<evaluator, built>>
lockVars == <<created, mutex, locks, rel>>
storeVars == <<store, initUsed, extWrites>>
cycleVars == <<fetched, cur, retries, conflicts, wrote, fetchErrors>>

(* ----------------------------- helpers -------------------------------- *)
Range(s) == {s[i] : i \in DOMAIN s}

Perms(S) == {s \in [1..Cardinality(S) -> S] : Range(s) = S}

\* ByName.Less
Less(a, b) == a < b

RECURSIVE InsertByName(_, _)
InsertByName(s, x) ==
    IF s = <<>> THEN <<x>>
    ELSE IF Less(x, Head(s)) THEN <<x>> \o s
    ELSE <<Head(s)>> \o InsertByName(Tail(s), x)

\* a lockAquisition that forgets the sort
SortKeepOrder(s) == s

\* sort.Sort(ByName(quotas))
RECURSIVE SortByName(_)
SortByName(s) == IF s = <<>> THEN <<>> ELSE InsertByName(SortByName(Tail(s)), Head(s))

\* the scope index: documents that apply to a namespace
DocumentsFor(ns) ==
    CASE ns = "nsA" -> Docs
      [] ns = "nsB" -> {d \in Docs : d # 1}
      [] OTHER -> {}

Zero == [r \in Resources |-> 0]

\* what a call returns: Admit (nil), Forbidden, TransientFailure (ServerTimeout)
\* or StoreError (a failed store read), with the document and resources it names
NoResult == [kind |-> "none", doc |-> NoDoc, res |-> {}, why |-> ""]
Outcome(k, d, r, w) == [kind |-> k, doc |-> d, res |-> r, why |-> w]

(* --------------------------- the requests ----------------------------- *)
Most == [r \in Resources |-> MaxDelta]
\* the usage of a request: some quantity of one resource, or the most of each
Deltas == {[Zero EXCEPT ![r] = k] : r \in Resources, k \in 1..MaxDelta} \cup {Most}

\* the calls the hosting server makes: a subresource request, a cluster-scoped
\* request, requests of every usage in the namespace of both documents, and a
\* request in each other namespace
Requests ==
    {a \in [subresource : BOOLEAN, namespace : Namespaces, delta : Deltas] :
        /\ a.subresource => a.namespace = "nsA"
        /\ (a.subresource \/ a.namespace # "nsA") => a.delta = Most}

NoRequest == [subresource |-> FALSE, namespace |-> "", delta |-> Zero]

(* ------------------------- quota documents ---------------------------- *)
\* hard-limit maps of the documents the administrators created: a resource is
\* limited by a document iff it is in the domain of the document's hard map
HardOf(d) == IF d = 1 THEN ("cpu" :> 1) ELSE ("cpu" :> 2 @@ "pods" :> 1)
\* the usage the calls find: document 1 unused, one cpu of document 2 in use
UsedOf(d) == IF d = 1 THEN Zero ELSE [Zero EXCEPT !["cpu"] = 1]

Fits(doc) == \A r \in DOMAIN doc.hard : doc.used[r] <= doc.hard[r]

NoDocument == [hard |-> << >>, used |-> Zero, version |-> 0]

\* section 4.4 step 7: the limited resources whose limit used + delta would exceed
Exceeded(doc, delta) ==
    {r \in DOMAIN doc.hard : doc.used[r] + delta[r] > doc.hard[r]}

\* section 4.4 step 8: the document the evaluator writes back
Charged(doc, delta) ==
    [doc EXCEPT !.used = [r \in Resources |-> doc.used[r] + delta[r]]]

\* the store's Update: accepted iff the expected version token is the current one
CasAccepts(d, expected) == store[d].version = expected

(* ------------------------ cluster quota plugin ------------------------ *)
\* Validate hands the evaluator's error on to its caller unchanged
ValidateSwallowsError(r) == Outcome("Admit", NoDoc, {}, "")
ValidateForbidsEveryError(r) ==
    IF r.kind = "Admit" THEN r ELSE Outcome("Forbidden", r.doc, r.res, r.why)
ValidateReturn(r) == r

\* admission.NewForbidden(a, errors.New("caches not synchronized"))
NotSynchronizedAsTimeout == Outcome("TransientFailure", NoDoc, {}, "caches not synchronized")
NotSynchronized == Outcome("Forbidden", NoDoc, {}, "caches not synchronized")

\* the loop condition of waitForSyncedStore, negated
Synced == clusterQuotaSynced /\ namespaceSynced

\* what waitForSyncedStore returns when the timeout channel delivers
TrueAtTimeout == TRUE
SyncedAtTimeout == clusterQuotaSynced /\ namespaceSynced

\* case <-timeout of the select
NeverReady(p) == FALSE
TimeoutReady(p) == timeout[p]

\* the names lockAquisition locks, in the order it locks them
LockNothing(qs) == << >>
LockOrder(qs) == qs

\* the release function's loop: for i := len(locks) - 1; i >= 0; i--
ReleaseStopsEarly(i) == i <= 1
ReleaseDone(i) == i < 1

HeldBy(p) == {d \in Docs : mutex[d] = p}

\* Validate: an operation on a subresource, or one without a namespace, is ignored
IgnoredOnlyOnSubresource(a) == a.subresource
Ignored(a) == a.subresource \/ a.namespace = ""


(* ------------------- image policy: resolutionConfig ------------------- *)
GroupResource(g, r) == [Group |-> g, Resource |-> r]
Pods == GroupResource("", "pods")
Jobs == GroupResource("batch", "jobs")
Builds == GroupResource("build.openshift.io", "builds")
StatefulSets == GroupResource("apps", "statefulsets")
\* the resources of the requests
GroupResources == {Pods, Jobs, Builds, StatefulSets}
\* the TargetResource of a resolution rule
TargetResources == {Jobs, GroupResource("", "*"), GroupResource("build.openshift.io", "*")}

\* ImageResolutionType; "" is the Policy of a rule that sets none
ResolutionTypes == {"DoNotAttempt", "Attempt", "AttemptRewrite", "Required", "RequiredRewrite"}
RulePolicies == {"", "Attempt", "AttemptRewrite"}

ResolutionRule == [TargetResource : TargetResources, LocalNames : BOOLEAN, Policy : RulePolicies]

RECURSIVE SeqsUpTo(_, _)
SeqsUpTo(S, n) ==
    IF n = 0 THEN {<< >>}
    ELSE LET shorter == SeqsUpTo(S, n - 1)
         IN  shorter \cup {Append(q, x) : q \in shorter, x \in S}

\* ImagePolicyConfig: the global resolution policy and the resolution rules
Configs ==
    [ResolveImages : ResolutionTypes, ResolutionRules : SeqsUpTo(ResolutionRule, MaxRules),
     ExecutionRules : {<< >>}]

\* the package's predicates on one ImageResolutionType
RequestsResolution(policy) == policy \in {"RequiredRewrite", "Required", "AttemptRewrite", "Attempt"}
FailOnResolutionFailure(policy) == policy \in {"RequiredRewrite", "Required"}
RewriteImagePullSpec(policy) == policy \in {"RequiredRewrite", "AttemptRewrite"}

CoversExactly(rule, gr) == rule = gr
resolutionRuleCoversResource(rule, gr) ==
    rule.Group = gr.Group /\ (rule.Resource = gr.Resource \/ rule.Resource = "*")

\* resolutionConfig.Covers
resolutionConfig_Covers(config, gr) ==
    \E i \in DOMAIN config.ResolutionRules :
        resolutionRuleCoversResource(config.ResolutionRules[i].TargetResource, gr)

\* resolutionConfig.RequestsResolution
resolutionConfig_RequestsResolution(config, gr) ==
    \/ RequestsResolution(config.ResolveImages)
    \/ \E i \in DOMAIN config.ResolutionRules :
        resolutionRuleCoversResource(config.ResolutionRules[i].TargetResource, gr)

\* resolutionConfig.FailOnResolutionFailure
resolutionConfig_FailOnResolutionFailure(config, gr) ==
    FailOnResolutionFailure(config.ResolveImages)

\* resources whose specs cannot change on update
skipJobsOnUpdate == {Jobs}
skipImageRewriteOnUpdate == {Jobs, Builds, StatefulSets}

NeverSkipOnUpdate(isUpdate, gr) == FALSE
SkipOnUpdate(isUpdate, gr) == isUpdate /\ gr \in skipImageRewriteOnUpdate

\* the loop of resolutionConfig.RewriteImagePullSpec over the rules still to
\* be visited, and what follows the loop
RECURSIVE RewriteByRules(_, _, _, _, _)
RewriteByRules(rules, hasMatchingRule, config, attrs, gr) ==
    IF rules = << >>
    THEN IF hasMatchingRule THEN FALSE ELSE RewriteImagePullSpec(config.ResolveImages)
    ELSE LET rule == Head(rules)
         IN  IF ~resolutionRuleCoversResource(rule.TargetResource, gr)
             THEN RewriteByRules(Tail(rules), hasMatchingRule, config, attrs, gr)
             ELSE IF rule.LocalNames /\ attrs.LocalRewrite THEN TRUE
             ELSE IF RewriteImagePullSpec(rule.Policy) THEN TRUE
             ELSE RewriteByRules(Tail(rules), TRUE, config, attrs, gr)

\* resolutionConfig.RewriteImagePullSpec
resolutionConfig_RewriteImagePullSpec(config, attrs, isUpdate, gr) ==
    IF SkipOnUpdate(isUpdate, gr) THEN FALSE
    ELSE RewriteByRules(config.ResolutionRules, FALSE, config, attrs, gr)

(* --------------- image policy: imageResolutionCache ------------------- *)
\* the registry name SetDefaultRegistryFunc supplies
integrated == "integrated.registry"
\* c.integrated.Matches
Matches(registry) == registry = integrated

Good == "sha256:good"
Missing == "sha256:missing"
\* digests of the images in the store; no image has the digest Missing
Digests == {Good}

\* DockerImageReference: registry, namespace, name, tag and ID (digest)
Reference(registry, namespace, name, tag, id) ==
    [Registry |-> registry, Namespace |-> namespace, Name |-> name, Tag |-> tag, ID |-> id]
NoReference == Reference("", "", "", "", "")
\* the references handed to resolveImageReference
References ==
    [Registry : {"", integrated, "index.docker.io"}, Namespace : {"", "repo"},
     Name : {"mysql"}, Tag : {"", "other"}, ID : {"", Good, Missing}]
\* the namespace of the admitted object; only "repo" has the stream mysql
DefaultNamespaces == {"repo", "default"}
DefaultImageTag == "latest"
\* the calls of resolveImageReference: a reference, the default namespace and
\* forceResolveLocalNames.  A call that differs from another one only in an
\* argument the function does not read for that reference is left out (the
\* digest path reads neither the namespace nor the flag; the default namespace
\* is read only when the reference has none or the flag is set).
Calls ==
    {c \in [ref : References, defaultNamespace : DefaultNamespaces, force : BOOLEAN] :
        /\ c.ref.ID # "" => c.defaultNamespace = "repo" /\ ~c.force
        /\ c.ref.ID = Missing => c.ref = Reference("index.docker.io", "", "mysql", "", Missing)
        /\ (c.ref.ID = "" /\ c.ref.Namespace # "" /\ ~c.force) => c.defaultNamespace = "repo"}

\* pull specs held by the store, and reference.Parse of them
Repository == "integrated.registry/repo/mysql"
ImagePullSpec == "integrated.registry/repo/mysql:other"
\* DockerImageReference.Exact: the pull spec of a reference; the tag is left
\* out when the reference has an ID
NameString(ref) ==
    (IF ref.Registry = "" THEN "" ELSE ref.Registry \o "/")
        \o (IF ref.Namespace = "" THEN "" ELSE ref.Namespace \o "/") \o ref.Name
Exact(ref) ==
    NameString(ref) \o (IF ref.ID # "" THEN "@" \o ref.ID
                        ELSE IF ref.Tag # "" THEN ":" \o ref.Tag ELSE "")
\* the references a pull spec of the model parses to
Parsed ==
    {r \in [Registry : {"", integrated, "index.docker.io"}, Namespace : {"", "repo"},
            Name : {"mysql"}, Tag : {"", "other", DefaultImageTag}, ID : {"", Good, Missing}] :
        r.ID = "" \/ r.Tag = ""}
ParseTable == [spec \in {Exact(r) : r \in Parsed} |-> CHOOSE r \in Parsed : Exact(r) = spec]
\* reference.Parse
Parse(spec) ==
    IF spec \in DOMAIN ParseTable THEN [ok |-> TRUE, ref |-> ParseTable[spec]]
    ELSE [ok |-> FALSE, ref |-> NoReference]

\* imagev1.Image: its name (the digest), its pull spec, the deny-execution annotation
Image(d, deny) == [Name |-> d, DockerImageReference |-> ImagePullSpec, deny |-> deny]
NoImage == [Name |-> "", DockerImageReference |-> "", deny |-> FALSE]

\* the image stream repo/mysql: lookup policy, repository, tags bound to Good
Streams ==
    [Local : BOOLEAN, DockerImageRepository : {"", Repository}, tags : SUBSET {DefaultImageTag}]

\* errors: IsNotFound, and the Kind and Group of the status details
Error(notFound, kind, group, msg) ==
    [notFound |-> notFound, kind |-> kind, group |-> group, msg |-> msg]
NoError == Error(FALSE, "", "", "")
NotFound(group, resource) == Error(TRUE, resource, group, "not found")
CouldNotBeResolved == Error(FALSE, "", "", "could not be resolved to an exact image reference")
NoLocalReferences == Error(FALSE, "", "", "ImageStreamTag does not allow local references")

\* rules.ImagePolicyAttributes (nil: no attributes are returned)
Attributes(name, image, integratedRegistry, localRewrite) ==
    [nil |-> FALSE, Name |-> name, Image |-> image, IntegratedRegistry |-> integratedRegistry,
     LocalRewrite |-> localRewrite]
NilAttributes ==
    [nil |-> TRUE, Name |-> NoReference, Image |-> NoImage, IntegratedRegistry |-> FALSE,
     LocalRewrite |-> FALSE]

\* imageCacheEntry
NoEntry == [present |-> FALSE, expires |-> 0, image |-> NoImage]
Entry(expires, image) == [present |-> TRUE, expires |-> expires, image |-> image]
\* c.expiration: one minute
expiration == 2
\* c.cache.Add; the cache holds 128 entries and the store has fewer images, so
\* nothing is evicted
Add(c, id, entry) == [c EXCEPT ![id] = entry]

\* time.Time.Before
BeforeOrAt(t, u) == t <= u
Before(t, u) == t < u

\* the store's answers
ImagesGet(id) ==
    IF id \in Digests THEN [err |-> NoError, image |-> images[id]]
    ELSE [err |-> NotFound("image.openshift.io", "images"), image |-> NoImage]
\* REST.Get of image stream tags: the stream, then the tag's image
ImageStreamTagsGet(namespace, name, tag) ==
    IF ~(namespace = "repo" /\ name = "mysql")
    THEN [err |-> NotFound("image.openshift.io", "imagestreams"), local |-> FALSE, image |-> NoImage]
    ELSE IF tag \notin stream.tags
    THEN [err |-> NotFound("image.openshift.io", "imagestreamtags"), local |-> FALSE,
          image |-> NoImage]
    ELSE [err |-> NoError, local |-> stream.Local, image |-> images[Good]]
ImageStreamsGet(namespace, name) ==
    IF namespace = "repo" /\ name = "mysql"
    THEN [err |-> NoError, stream |-> stream]
    ELSE [err |-> NotFound("image.openshift.io", "imagestreams"),
          stream |-> [Local |-> FALSE, DockerImageRepository |-> "", tags |-> {}]]

isImageStreamTagNotFound(err) ==
    /\ err # NoError /\ err.notFound
    /\ err.kind = "imagestreamtags" /\ err.group = "image.openshift.io"

\* what one resolution returns: attributes, error, the cache it leaves, the
\* store reads it made in order.  c is the receiver's cache as the call finds it.
Resolution(attrs, err, c, gets) == [attrs |-> attrs, err |-> err, cache |-> c, gets |-> gets]

OnlyWhenForced(force, local) == force
LocalNamesResolve(force, local) == force \/ local

resolveImageStreamTag(c, namespace, name, tag, partial, forceResolveLocalNames) ==
    LET got == ImageStreamTagsGet(namespace, name, tag)
        attrs == Attributes(NoReference, NoImage, TRUE, FALSE)
    IN  IF got.err # NoError
        THEN LET failed == [attrs EXCEPT !.IntegratedRegistry = IF partial THEN FALSE ELSE @]
             IN  IF isImageStreamTagNotFound(got.err)
                 THEN LET s == ImageStreamsGet(namespace, name)
                          repo == Parse(s.stream.DockerImageRepository)
                      IN  IF /\ s.err = NoError
                             /\ LocalNamesResolve(forceResolveLocalNames, s.stream.Local)
                             /\ s.stream.DockerImageRepository # ""
                             /\ repo.ok
                          THEN Resolution([failed EXCEPT !.Name = [repo.ref EXCEPT !.Tag = tag],
                                                         !.LocalRewrite = TRUE],
                                          NoError, c, <<"imagestreamtags", "imagestreams">>)
                          ELSE Resolution(failed, got.err, c,
                                          <<"imagestreamtags", "imagestreams">>)
                 ELSE Resolution(failed, got.err, c, <<"imagestreamtags">>)
        ELSE IF partial /\ ~forceResolveLocalNames /\ ~got.local
        THEN Resolution([attrs EXCEPT !.IntegratedRegistry = FALSE], NoLocalReferences, c,
                        <<"imagestreamtags">>)
        ELSE LET ref == Parse(got.image.DockerImageReference)
                 marked == [attrs EXCEPT !.LocalRewrite = partial]
             IN  IF ~ref.ok
                 THEN Resolution(marked, Error(FALSE, "", "", "could not be parsed"), c,
                                 <<"imagestreamtags">>)
                 ELSE Resolution([marked EXCEPT
                                     !.Name = [ref.ref EXCEPT !.Tag = "", !.ID = got.image.Name],
                                     !.Image = got.image],
                                 NoError,
                                 Add(c, got.image.Name, Entry(now + expiration, got.image)),
                                 <<"imagestreamtags">>)

HasIDAndNoTag(ref) == ref.ID # "" /\ ref.Tag = ""
HasID(ref) == ref.ID # ""

AnyRegistry(ref) == TRUE
FullReference(ref) == Matches(ref.Registry)

resolveImageReference(c, ref, defaultNamespace, forceResolveLocalNames) ==
    IF HasID(ref)
    THEN IF ref.ID \in DOMAIN c /\ c[ref.ID].present /\ Before(now, c[ref.ID].expires)
         THEN Resolution(Attributes(ref, c[ref.ID].image, FALSE, FALSE), NoError, c, << >>)
         ELSE LET got == ImagesGet(ref.ID)
              IN  IF got.err # NoError
                  THEN Resolution(NilAttributes, got.err, c, <<"images">>)
                  ELSE Resolution(Attributes(ref, got.image, Matches(ref.Registry), FALSE),
                                  NoError,
                                  Add(c, ref.ID, Entry(now + expiration, got.image)),
                                  <<"images">>)
    ELSE LET fullReference == FullReference(ref)
             partialReference ==
                 \/ forceResolveLocalNames
                 \/ ref.Registry = "" /\ ref.Namespace = "" /\ ref.Name # ""
             tag == IF ref.Tag = "" THEN DefaultImageTag ELSE ref.Tag
             namespace == IF ref.Namespace = "" \/ forceResolveLocalNames
                          THEN defaultNamespace ELSE ref.Namespace
         IN  IF ~fullReference /\ ~partialReference
             THEN Resolution(NilAttributes, CouldNotBeResolved, c, << >>)
             ELSE resolveImageStreamTag(c, namespace, ref.Name, tag, partialReference,
                                        forceResolveLocalNames)

NoResolution ==
    [called |-> FALSE, ref |-> NoReference, defaultNamespace |-> "", force |-> FALSE,
     attrs |-> NilAttributes, err |-> NoError, gets |-> << >>]

ResolverInit ==
    /\ now = 0
    /\ images = [d \in Digests |-> Image(d, FALSE)]
    /\ stream = [Local |-> FALSE, DockerImageRepository |-> Repository, tags |-> {}]
    /\ cache = [d \in Digests |-> NoEntry]
    /\ resolved = NoResolution

(* ------------------- image policy: admit and accept ------------------- *)
Nodes == GroupResource("", "nodes")

\* ImageExecutionPolicyRule: its name, Reject, and its ImageCondition (the
\* resources it is on, the registries it matches, whether it matches the
\* deny-execution annotation of the image)
ExecutionRule(name, reject, onResources, matchRegistries, matchImageAnnotations) ==
    [Name |-> name, Reject |-> reject, OnResources |-> onResources,
     MatchRegistries |-> matchRegistries, MatchImageAnnotations |-> matchImageAnnotations]
ExecutionDenied == "execution-denied"
DenyAnnotated == ExecutionRule(ExecutionDenied, TRUE, {Pods, Nodes}, {}, TRUE)
RejectDockerHub == ExecutionRule("reject-index-docker-io", TRUE, {Pods}, {"index.docker.io"}, FALSE)
AllowAll == ExecutionRule("allow", FALSE, {Pods}, {}, FALSE)
\* a resolution rule on every resource of the core group
ResolveLocalNames == [TargetResource |-> GroupResource("", "*"), LocalNames |-> TRUE, Policy |-> ""]

\* the configurations the plugin is constructed with
AdmitConfig(resolveImages, resolutionRules, executionRules) ==
    [ResolveImages |-> resolveImages, ResolutionRules |-> resolutionRules,
     ExecutionRules |-> executionRules]
AdmitConfigs ==
    {AdmitConfig("AttemptRewrite", << >>, <<DenyAnnotated>>),
     AdmitConfig("AttemptRewrite", << >>, <<RejectDockerHub>>),
     AdmitConfig("Attempt", << >>, <<DenyAnnotated>>),
     AdmitConfig("RequiredRewrite", << >>, <<AllowAll>>),
     AdmitConfig("DoNotAttempt", << >>, <<RejectDockerHub>>),
     AdmitConfig("DoNotAttempt", << >>, << >>),
     AdmitConfig("DoNotAttempt", <<ResolveLocalNames>>, << >>),
     AdmitConfig("Required", <<ResolveLocalNames>>, << >>)}

\* rules.Accepter: Covers
accepter_Covers(rules, gr) == \E i \in DOMAIN rules : gr \in rules[i].OnResources
\* an ImageCondition matches the attributes of an image
matchImageCondition(rule, attrs) ==
    /\ rule.MatchRegistries # {} => attrs.Name.Registry \in rule.MatchRegistries
    /\ rule.MatchImageAnnotations => attrs.Image # NoImage /\ attrs.Image.deny
\* rules.Accepter: Accepts.  A Reject rule on the resource that is not excluded
\* and matches denies; without one the image is allowed.
Accepts(rules, attrs, gr, excluded) ==
    ~\E i \in DOMAIN rules :
        /\ gr \in rules[i].OnResources
        /\ rules[i].Name \notin excluded
        /\ rules[i].Reject
        /\ matchImageCondition(rules[i], attrs)

\* kapi.ObjectReference
ObjectReference(kind, namespace, name) == [Kind |-> kind, Namespace |-> namespace, Name |-> name]

\* ResolveObjectReference of a DockerImage reference, and of a kind it does
\* not recognize (the objects of the model hold DockerImage references)
ResolveObjectReference(c, ref, defaultNamespace, forceResolveLocalNames) ==
    IF ref.Kind = "DockerImage"
    THEN LET parsed == Parse(ref.Name)
         IN  IF ~parsed.ok
             THEN Resolution(NilAttributes, Error(FALSE, "", "", "invalid reference format"),
                             c, << >>)
             ELSE resolveImageReference(c, parsed.ref, defaultNamespace, forceResolveLocalNames)
    ELSE Resolution(NilAttributes,
                    Error(FALSE, "", "", "image policy does not allow image references of kind"),
                    c, << >>)

\* the object of an admission request: resource, operation, subresource,
\* namespace, the rules its namespace excludes, the resolve-names annotation,
\* and the images of its containers
Object(resource, operation, subresource, excluded, resolveNames, imgs) ==
    [resource |-> resource, operation |-> operation, subresource |-> subresource,
     namespace |-> "repo", excluded |-> excluded, resolveNames |-> resolveNames,
     images |-> imgs]
NoObject == Object(Pods, "", FALSE, {}, FALSE, << >>)
Pod(imgs) == Object(Pods, "CREATE", FALSE, {}, FALSE, imgs)
DockerHubImage == "index.docker.io/mysql@sha256:good"
IntegratedImage == "integrated.registry/repo/mysql"
Unresolvable == "index.docker.io/mysql:other"
Objects ==
    {Pod(<<DockerHubImage>>), Pod(<<IntegratedImage>>), Pod(<<Unresolvable>>),
     Pod(<<DockerHubImage, IntegratedImage>>), Pod(<<IntegratedImage, IntegratedImage>>),
     Object(Pods, "UPDATE", FALSE, {}, FALSE, <<IntegratedImage>>),
     Object(Pods, "CREATE", FALSE, {ExecutionDenied}, FALSE, <<DockerHubImage>>),
     Object(Pods, "CREATE", FALSE, {}, TRUE, <<IntegratedImage>>),
     Object(Pods, "DELETE", FALSE, {}, FALSE, <<DockerHubImage>>),
     Object(Pods, "CREATE", TRUE, {}, FALSE, <<DockerHubImage>>),
     Object(Nodes, "CREATE", FALSE, {}, FALSE, << >>)}

\* the errors of the callbacks
RejectByPolicy == "this image is prohibited by policy"
ChangedAfterAdmission == "this image is prohibited by policy (changed after admission)"
ValidationError(msg) == "error in image policy validation: " \o msg

\* what the callback does with one reference: the reference as it leaves it,
\* its error ("" for nil), the attributes the accepter was asked about, the
\* error of the resolution, the cache it leaves, the store reads it made
Handling(ref, err, attrs, resolutionErr, c, gets) ==
    [ref |-> ref, err |-> err, attrs |-> attrs, resolutionErr |-> resolutionErr,
     cache |-> c, gets |-> gets]

\* what accept's callback does with a reference once the resolver has
\* answered with r (no resolution is asked for: r has neither attributes nor an
\* error)
acceptResolved(r, requested, ref, obj, config) ==
    LET gr == obj.resource
        isUpdate == obj.operation = "UPDATE"
        resolvedOK == requested /\ r.err = NoError
        rewritten ==
            IF resolvedOK /\ resolutionConfig_RewriteImagePullSpec(config, r.attrs, isUpdate, gr)
            THEN ObjectReference("DockerImage", "", Exact(r.attrs.Name))
            ELSE ref
        attrs ==
            IF resolvedOK THEN r.attrs
            ELSE Attributes(IF ref.Kind = "DockerImage" THEN Parse(ref.Name).ref
                            ELSE NoReference,
                            NoImage, FALSE, FALSE)
    IN  IF r.err # NoError /\ resolutionConfig_FailOnResolutionFailure(config, gr)
        THEN Handling(ref, r.err.msg, NilAttributes, r.err, r.cache, r.gets)
        ELSE IF Accepts(config.ExecutionRules, attrs, gr, obj.excluded)
        THEN Handling(rewritten, "", attrs, r.err, r.cache, r.gets)
        ELSE Handling(rewritten, IF r.err # NoError THEN r.err.msg ELSE RejectByPolicy,
                      attrs, r.err, r.cache, r.gets)

\* the callback accept hands to the mutator.  (accept also keeps the decision
\* it made for a reference and reuses it for an equal reference of the same
\* object; within one call an equal reference resolves to the same image, so
\* the decision is made again here.)
acceptReference(c, ref, obj, config) ==
    IF resolutionConfig_RequestsResolution(config, obj.resource)
    THEN acceptResolved(ResolveObjectReference(c, ref, obj.namespace, obj.resolveNames),
                        TRUE, ref, obj, config)
    ELSE acceptResolved(Resolution(NilAttributes, NoError, c, << >>), FALSE, ref, obj, config)

\* reflect.DeepEqual(ref, original)
NeverCompared(ref, original) == TRUE
DeepEqual(ref, original) == ref = original

\* mutationPreventer.Mutate: what its callback returns when fn has left the
\* reference and the error of o
preventMutation(o, original) ==
    IF o.err # "" THEN [o EXCEPT !.err = ValidationError(@)]
    ELSE IF ~DeepEqual(o.ref, original) THEN [o EXCEPT !.err = ChangedAfterAdmission]
    ELSE o

\* the callback mutationPreventer.Mutate hands to the mutator in place of fn
mutationPreventer_Mutate(c, ref, obj, config) ==
    preventMutation(acceptReference(c, ref, obj, config), ref)

\* admit wraps the mutator in a mutationPreventer
NeverPrevented(mutationAllowed) == FALSE
Prevented(mutationAllowed) == ~mutationAllowed

\* the mutator of a pod spec: each container's image is handed to the callback
\* as a DockerImage reference and is written back when the callback succeeds
RECURSIVE podSpecMutator_Mutate(_, _, _, _, _, _)
\* the callback has answered o for the first of imgs
writeBack(o, imgs, obj, config, prevented, done) ==
    podSpecMutator_Mutate(
        Tail(imgs), o.cache, obj, config, prevented,
        [images |-> Append(done.images,
                           IF o.err = "" /\ o.ref.Kind = "DockerImage" THEN o.ref.Name
                           ELSE Head(imgs)),
         outcomes |-> Append(done.outcomes,
                             [ref |-> o.ref, err |-> o.err, attrs |-> o.attrs,
                              resolutionErr |-> o.resolutionErr, gets |-> o.gets])])
podSpecMutator_Mutate(imgs, c, obj, config, prevented, done) ==
    IF imgs = << >> THEN [images |-> done.images, outcomes |-> done.outcomes, cache |-> c]
    ELSE IF prevented
    THEN writeBack(mutationPreventer_Mutate(c, ObjectReference("DockerImage", "", Head(imgs)),
                                            obj, config),
                   imgs, obj, config, prevented, done)
    ELSE writeBack(acceptReference(c, ObjectReference("DockerImage", "", Head(imgs)),
                                   obj, config),
                   imgs, obj, config, prevented, done)

\* GetImageReferenceMutator: objects without a list of images have none
HasImages(gr) == gr = Pods

\* admit: the operations it handles, the resources it covers
Handled(obj) == obj.operation \in {"CREATE", "UPDATE"} /\ ~obj.subresource
CoveredByAccepter(config, gr) == accepter_Covers(config.ExecutionRules, gr)
Covered(config, gr) ==
    accepter_Covers(config.ExecutionRules, gr) \/ resolutionConfig_Covers(config, gr)

\* accept: the errors of the mutator make the object invalid
accepted(m) ==
    [err |-> IF \E i \in DOMAIN m.outcomes : m.outcomes[i].err # "" THEN "Invalid" ELSE "",
     images |-> m.images, outcomes |-> m.outcomes, cache |-> m.cache]

\* imagePolicyPlugin.admit: the error it returns ("" for nil), the images of
\* the object and the cache as it leaves them, what the callback did with
\* each image
admit(c, obj, config, mutationAllowed) ==
    IF ~Handled(obj) \/ ~Covered(config, obj.resource)
    THEN [err |-> "", images |-> obj.images, outcomes |-> << >>, cache |-> c]
    ELSE IF ~HasImages(obj.resource)
    THEN [err |-> "Forbidden", images |-> obj.images, outcomes |-> << >>, cache |-> c]
    ELSE accepted(podSpecMutator_Mutate(obj.images, c, obj, config,
                                        Prevented(mutationAllowed),
                                        [images |-> << >>, outcomes |-> << >>]))

\* no object is under admission
NoAdmission ==
    [phase |-> "idle", obj |-> NoObject, submitted |-> << >>, since |-> "nothing",
     tampered |-> {}, call |-> "", err |-> "", outcomes |-> << >>]

NoConfig ==
    [ResolveImages |-> "DoNotAttempt", ResolutionRules |-> << >>, ExecutionRules |-> << >>]
NoDecision ==
    [asked |-> FALSE, resource |-> Pods, update |-> FALSE,
     LocalRewrite |-> FALSE, covers |-> FALSE, resolve |-> FALSE, fail |-> FALSE,
     rewrite |-> FALSE]

ImagePolicyInit ==
    /\ ResolverInit
    /\ plugin = [built |-> FALSE, config |-> NoConfig]
    /\ decision = NoDecision
    /\ adm = NoAdmission

(* ------------------- scope authorizer (scopeauthorizer) --------------- *)
\* authorizer.Decision
DecisionAllow == "Allow"
DecisionDeny == "Deny"
DecisionNoOpinion == "NoOpinion"

\* the scopes a token may carry: two user scopes, a role scope bound to the
\* namespace ns, and one no scope evaluator handles
Scopes == {"user:info", "user:full", "role:view:ns", "bogus"}

\* authorizer.Attributes: the user (nil, or a user whose Extra holds the scopes),
\* verb, resource or non-resource path, namespace; and the cluster roles the
\* clusterRoleGetter finds
AuthorizerAttributes ==
    [user : {[present |-> FALSE, scopes |-> << >>]}
                \cup {[present |-> TRUE, scopes |-> s] : s \in SeqsUpTo(Scopes, MaxScopes)},
     verb : {"get", "delete"}, path : {"users", "pods", "/version"},
     namespace : {"", "ns"},
     clusterRoles : SUBSET {"view"}]

\* one scope evaluator's ResolveRules; an unhandled scope has no evaluator
ResolveRules(scope, namespace, clusterRoles) ==
    IF scope = "user:info"
    THEN [rules |-> <<[Verbs |-> {"get"}, Paths |-> {"users"}]>>, err |-> ""]
    ELSE IF scope = "user:full"
    THEN [rules |-> <<[Verbs |-> {"get", "delete"}, Paths |-> {"users", "pods", "/version"}]>>,
          err |-> ""]
    ELSE IF scope = "role:view:ns"
    THEN IF namespace # "ns" THEN [rules |-> << >>, err |-> ""]
         ELSE IF "view" \in clusterRoles
         THEN [rules |-> <<[Verbs |-> {"get"}, Paths |-> {"pods"}]>>, err |-> ""]
         ELSE [rules |-> << >>, err |-> "clusterrole \"view\" not found"]
    ELSE [rules |-> << >>, err |-> "no scope evaluator found for \"" \o scope \o "\""]

\* scope.ScopesToRules: the discovery rule and the rules of every scope that
\* resolves; the errors of the others, aggregated
RECURSIVE ScopesToRules(_, _, _)
ScopesToRules(scopes, namespace, clusterRoles) ==
    IF scopes = << >>
    THEN [rules |-> <<[Verbs |-> {"get"}, Paths |-> {"/version"}]>>, errs |-> << >>]
    ELSE LET last == ResolveRules(scopes[Len(scopes)], namespace, clusterRoles)
             rest == ScopesToRules(SubSeq(scopes, 1, Len(scopes) - 1), namespace, clusterRoles)
         IN  [rules |-> rest.rules \o last.rules,
              errs |-> IF last.err = "" THEN rest.errs ELSE Append(rest.errs, last.err)]

\* authorizerrbac.RulesAllow
RulesAllow(attributes, rules) ==
    \E i \in DOMAIN rules : attributes.verb \in rules[i].Verbs /\ attributes.path \in rules[i].Paths

NeverEmpty(scopes) == FALSE
\* len(scopes) == 0
NoScopes(scopes) == Len(scopes) = 0

\* scopeAuthorizer.Authorize.  The reason of a Deny is kept in its parts: the
\* scopes of "scopes %v prevent this action" and the errors of the ", additionally
\* the following non-fatal errors were reported: %v" it ends with (none: no such
\* ending); no reason is the empty tuple.
Authorize(attributes) ==
    IF ~attributes.user.present
    THEN [decision |-> DecisionNoOpinion, reason |-> << >>, err |-> "user missing from context"]
    ELSE IF NoScopes(attributes.user.scopes)
    THEN [decision |-> DecisionNoOpinion, reason |-> << >>, err |-> ""]
    ELSE LET r == ScopesToRules(attributes.user.scopes, attributes.namespace,
                                attributes.clusterRoles)
         IN  IF RulesAllow(attributes, r.rules)
             THEN [decision |-> DecisionNoOpinion, reason |-> << >>, err |-> ""]
             ELSE [decision |-> DecisionDeny,
                   reason |-> <<attributes.user.scopes, r.errs>>,
                   err |-> ""]

NoAuthorization ==
    [called |-> FALSE,
     attributes |-> [user |-> [present |-> FALSE, scopes |-> << >>], verb |-> "get",
                     path |-> "users", namespace |-> "", clusterRoles |-> {}],
     decision |-> "", reason |-> << >>, err |-> ""]

(* --------------- ImageStreamTag REST (package imagestreamtag) --------- *)
\* for i := 10; i > 0; i--
Attempts == 10

\* the tags of the one image stream the calls address
Tags == {"latest", "other"}

\* an image stream as the store holds it, or as a call holds its copy: exists is
\* a set CreationTimestamp, version the ResourceVersion
ImageStream(exists, version, spec, status) ==
    [exists |-> exists, version |-> version, spec |-> spec, status |-> status]

\* what a call of the image stream registry returns
Returned(err, s) == [err |-> err, stream |-> s]

\* an error of the store that is neither NotFound, AlreadyExists nor Conflict
StoreFails ==
    IF streamErrors < MaxStreamErrors
    THEN {Returned("InternalError", ImageStream(FALSE, 0, {}, {}))}
    ELSE {}

\* r.imageStreamRegistry.GetImageStream
GetImageStream ==
    StoreFails \cup
    {IF imageStream.exists THEN Returned("", imageStream)
     ELSE Returned("NotFound", ImageStream(FALSE, 0, {}, {}))}

\* r.imageStreamRegistry.CreateImageStream
CreateImageStream(target) ==
    StoreFails \cup
    {IF imageStream.exists THEN Returned("AlreadyExists", imageStream)
     ELSE Returned("", ImageStream(TRUE, imageStream.version + 1, target.spec, target.status))}

\* r.imageStreamRegistry.UpdateImageStream: a compare-and-swap on the resource version
UpdateImageStream(target) ==
    StoreFails \cup
    {IF ~imageStream.exists THEN Returned("NotFound", imageStream)
     ELSE IF target.version # imageStream.version THEN Returned("Conflict", imageStream)
     ELSE Returned("", ImageStream(TRUE, imageStream.version + 1, target.spec, target.status))}

RetryOnAnyError(op, err) == err # ""
\* Create: kapierrors.IsAlreadyExists(err) || kapierrors.IsConflict(err); Delete:
\* kapierrors.IsConflict(err)
Continues(op, err) == err = "Conflict" \/ (op = "Create" /\ err = "AlreadyExists")

\* a call before it is made
NoCall ==
    [pc |-> "idle", op |-> "", tag |-> "latest", hasTag |-> FALSE, uidMet |-> TRUE, i |-> 0,
     target |-> ImageStream(FALSE, 0, {}, {}), cycles |-> 0, conflicts |-> 0, wrote |-> 0,
     lastErr |-> "", result |-> ""]

\* the call returns
Returns(call, res) == [call EXCEPT !.pc = "done", !.result = res]

\* continue: i--, and the loop's test i > 0
Continue(call) ==
    IF call.i - 1 > 0 THEN [call EXCEPT !.pc = "get", !.i = @ - 1]
    ELSE Returns([call EXCEPT !.i = @ - 1], "ServerTimeout")

(* ------- image policy: concurrent resolutions, statement by statement -- *)
\* the kinds of reference ResolveObjectReference resolves; every one of them
\* names the image Good: a DockerImage pull spec with that digest, the
\* ImageStreamTag repo/mysql:latest, the ImageStreamImage repo/mysql@sha256:good
Kinds == {"DockerImage", "ImageStreamTag", "ImageStreamImage"}

\* a resolution before it begins: where it stands, its kind, what now() gave it,
\* the image it read or was served and the time that image was read from the
\* store, whether the image came from the cache, and what the call returns
NotResolving ==
    [pc |-> "idle", kind |-> "", now |-> 0, image |-> NoImage, read |-> 0, hit |-> FALSE,
     got |-> NoError, nil |-> TRUE, err |-> NoError]

\* an error of the store other than NotFound
Unavailable == Error(FALSE, "", "", "the server is currently unable to handle the request")

\* the store read of a resolution of the kind: c.imageClient.Images().Get,
\* ImageStreamTags(namespace).Get, ImageStreamImages(namespace).Get
StoreGet(kind) ==
    {[err |-> Unavailable, image |-> NoImage]} \cup
    {IF kind = "DockerImage" THEN ImagesGet(Good)
     ELSE IF kind = "ImageStreamTag"
     THEN LET got == ImageStreamTagsGet("repo", "mysql", DefaultImageTag)
          IN  [err |-> got.err, image |-> got.image]
     ELSE IF DefaultImageTag \in stream.tags THEN [err |-> NoError, image |-> images[Good]]
     ELSE [err |-> NotFound("image.openshift.io", "imagestreamimage"), image |-> NoImage]}

ServeExpired(call, err) ==
    IF cache[Good].present
    THEN [call EXCEPT !.pc = "done", !.hit = TRUE, !.nil = FALSE, !.image = cache[Good].image,
                      !.read = readAt[Good]]
    ELSE [call EXCEPT !.pc = "done", !.err = err, !.nil = call.kind = "DockerImage"]
\* the store read failed: return nil, err (DockerImage); return attrs, err (the
\* other kinds, attrs carrying no image).  A tag that is not found in a stream
\* that resolves local names and has a repository is no error: the attributes
\* name the repository, and carry no image
FetchFailed(call, err) ==
    IF /\ call.kind = "ImageStreamTag"
       /\ err.notFound /\ err.kind = "imagestreamtags"
       /\ stream.Local
       /\ stream.DockerImageRepository # ""
    THEN [call EXCEPT !.pc = "done", !.nil = FALSE]
    ELSE [call EXCEPT !.pc = "done", !.err = err, !.nil = call.kind = "DockerImage"]

(* ------------- image policy: the cache as an LRU of 128 entries -------- *)
\* lru.New(128)
size == 128

\* an element of the LRU
Element(key, value) == [key |-> key, value |-> value]
Keys(l) == {l[i].key : i \in 1..Len(l)}
\* where the key stands in the LRU, 0 if it is not there
Position(l, key) ==
    LET at == {i \in 1..Len(l) : l[i].key = key}
    IN  IF at = {} THEN 0 ELSE CHOOSE i \in at : TRUE
Without(l, i) == SubSeq(l, 1, i - 1) \o SubSeq(l, i + 1, Len(l))

\* Cache.Get: the value of the key, which becomes the most recently used
lruGet(l, key) ==
    LET i == Position(l, key)
    IN  IF i = 0 THEN [ok |-> FALSE, value |-> NoEntry, cache |-> l]
        ELSE [ok |-> TRUE, value |-> l[i].value, cache |-> <<l[i]>> \o Without(l, i)]

AddAndKeepAll(l, key, value) ==
    LET i == Position(l, key)
    IN  <<Element(key, value)>> \o (IF i # 0 THEN Without(l, i) ELSE l)
\* Cache.Add: the value replaces that of the key, or is added to the front and
\* the least recently used element is removed if the LRU has grown beyond size
lruAdd(l, key, value) ==
    LET i == Position(l, key)
        added == <<Element(key, value)>> \o l
    IN  IF i # 0 THEN <<Element(key, value)>> \o Without(l, i)
        ELSE IF Len(added) > size THEN SubSeq(added, 1, size)
        ELSE added

\* the digests resolved against the LRU are numbered; the store has an image
\* for each of them, all of them annotated alike
StoredImage(d) == Image(d, images[Good].deny)
\* the digests resolved next: one never resolved before, and, once the LRU is
\* full, the first two again
NextDigests ==
    LET seen == IF lru = << >> THEN 0 ELSE CHOOSE k \in Keys(lru) : \A j \in Keys(lru) : j <= k
    IN  {d \in 1..MaxDigests : d = seen + 1 \/ (Len(lru) >= size /\ d <= 2)}

(* ------------------------------ Init ---------------------------------- *)
Init ==
    /\ pc = [p \in Procs |-> "start"]
    /\ attr = [p \in Procs |-> NoRequest]
    /\ clusterQuotaSynced = FALSE
    /\ namespaceSynced = FALSE
    /\ timeout = [p \in Procs |-> FALSE]
    /\ evaluator = NoProc
    /\ built = 0
    /\ invoked = [p \in Procs |-> FALSE]
    /\ created = {}
    /\ mutex = [d \in Docs |-> NoProc]
    /\ quotas = [p \in Procs |-> << >>]
    /\ locks = [p \in Procs |-> << >>]
    /\ rel = [p \in Procs |-> 0]
    /\ store = [d \in Docs |-> [hard |-> HardOf(d), used |-> UsedOf(d), version |-> 1]]
    /\ initUsed = [d \in Docs |-> store[d].used]
    /\ fetched = [p \in Procs |-> [d \in Docs |-> NoDocument]]
    /\ cur = [p \in Procs |-> 0]
    /\ retries = [p \in Procs |-> 0]
    /\ conflicts = [p \in Procs |-> 0]
    /\ wrote = [p \in Procs |-> {}]
    /\ result = [p \in Procs |-> NoResult]
    /\ extWrites = 0
    /\ fetchErrors = 0
    /\ ImagePolicyInit
    /\ authz = NoAuthorization
    /\ imageStream = ImageStream(FALSE, 0, {}, {})
    /\ istag = [p \in Procs |-> NoCall]
    /\ streamWrites = 0
    /\ streamErrors = 0
    /\ resolving = [p \in Procs |-> NotResolving]
    /\ readAt = [d \in Digests |-> 0]
    /\ lru = << >>

(* ---------------------------- Validate -------------------------------- *)
\* Validate up to the call of waitForSyncedStore
Validate(p) ==
    /\ pc[p] = "start"
    /\ \E a \in Requests :
        /\ attr' = [attr EXCEPT ![p] = a]
        /\ IF Ignored(a)
           THEN /\ pc' = [pc EXCEPT ![p] = "done"]
                /\ result' = [result EXCEPT ![p] = Outcome("Admit", NoDoc, {}, "")]
           ELSE /\ pc' = [pc EXCEPT ![p] = "wait"]
                /\ UNCHANGED result
    /\ UNCHANGED <<syncVars, timeout, onceVars, invoked, quotas, lockVars, storeVars, cycleVars>>
    /\ UNCHANGED <<imgVars, restVars>>

\* waitForSyncedStore: the loop condition; when it returns true the timeout
\* channel is dropped with the call's frame
WaitCheck(p) ==
    /\ pc[p] = "wait"
    /\ pc' = [pc EXCEPT ![p] = IF Synced THEN "init" ELSE "select"]
    /\ timeout' = [timeout EXCEPT ![p] = IF Synced THEN FALSE ELSE @]
    /\ UNCHANGED <<attr, syncVars, onceVars, invoked, quotas, lockVars, storeVars,
                   cycleVars, result>>
    /\ UNCHANGED <<imgVars, restVars>>

\* waitForSyncedStore: case <-time.After(100 * time.Millisecond)
WaitTick(p) ==
    /\ pc[p] = "select"
    /\ pc' = [pc EXCEPT ![p] = "wait"]
    /\ UNCHANGED <<attr, syncVars, timeout, onceVars, invoked, quotas, lockVars, storeVars,
                   cycleVars, result>>
    /\ UNCHANGED <<imgVars, restVars>>

\* waitForSyncedStore: case <-timeout, and Validate's use of what it returns
WaitTimeout(p) ==
    /\ pc[p] = "select"
    /\ TimeoutReady(p)
    /\ IF SyncedAtTimeout
       THEN /\ pc' = [pc EXCEPT ![p] = "init"]
            /\ timeout' = [timeout EXCEPT ![p] = FALSE]
            /\ UNCHANGED result
       ELSE /\ pc' = [pc EXCEPT ![p] = "done"]
            /\ result' = [result EXCEPT ![p] = NotSynchronized]
            /\ UNCHANGED timeout
    /\ UNCHANGED <<attr, syncVars, onceVars, invoked, quotas, lockVars, storeVars,
                   cycleVars>>
    /\ UNCHANGED <<imgVars, restVars>>

\* the timer of time.After(timeToWaitForCacheSync) fires
TimeoutFires(p) ==
    /\ pc[p] \in {"wait", "select"}
    /\ ~timeout[p]
    /\ timeout' = [timeout EXCEPT ![p] = TRUE]
    /\ UNCHANGED <<pc, attr, syncVars, onceVars, invoked, quotas, lockVars, storeVars,
                   cycleVars, result>>
    /\ UNCHANGED <<imgVars, restVars>>

\* an informer finishes its initial list: HasSynced turns true and stays true
ClusterQuotaSyncs ==
    /\ ~clusterQuotaSynced
    /\ clusterQuotaSynced' = TRUE
    /\ UNCHANGED <<pc, attr, namespaceSynced, timeout, onceVars, invoked, quotas, lockVars,
                   storeVars, cycleVars, result>>
    /\ UNCHANGED <<imgVars, restVars>>

NamespaceSyncs ==
    /\ ~namespaceSynced
    /\ namespaceSynced' = TRUE
    /\ UNCHANGED <<pc, attr, clusterQuotaSynced, timeout, onceVars, invoked, quotas, lockVars,
                   storeVars, cycleVars, result>>
    /\ UNCHANGED <<imgVars, restVars>>

\* q.init.Do(...): the evaluator is constructed by the first call to get here
InitOnce(p) ==
    /\ pc[p] = "init"
    /\ IF evaluator = NoProc
       THEN evaluator' = p /\ built' = built + 1
       ELSE UNCHANGED onceVars
    /\ pc' = [pc EXCEPT ![p] = "evaluate"]
    /\ UNCHANGED <<attr, syncVars, timeout, invoked, quotas, lockVars, storeVars, cycleVars,
                   result>>
    /\ UNCHANGED <<imgVars, restVars>>

(* --------------------------- the evaluator ---------------------------- *)
\* q.evaluator.Evaluate(a), steps 3 and 4: the documents of the namespace, in
\* whatever order the accessor lists them
Evaluate(p) ==
    /\ pc[p] = "evaluate"
    /\ invoked' = [invoked EXCEPT ![p] = TRUE]
    /\ \E qs \in Perms(DocumentsFor(attr[p].namespace)) :
        /\ quotas' = [quotas EXCEPT ![p] = qs]
        /\ IF qs = << >>
           THEN /\ pc' = [pc EXCEPT ![p] = "done"]
                /\ result' = [result EXCEPT ![p] =
                                 ValidateReturn(Outcome("Admit", NoDoc, {}, ""))]
           ELSE /\ pc' = [pc EXCEPT ![p] = "sort"]
                /\ UNCHANGED result
    /\ UNCHANGED <<attr, syncVars, timeout, onceVars, lockVars, storeVars, cycleVars>>
    /\ UNCHANGED <<imgVars, restVars>>

\* lockAquisition: locks := []sync.Locker{}; sort.Sort(ByName(quotas))
LockSort(p) ==
    /\ pc[p] = "sort"
    /\ quotas' = [quotas EXCEPT ![p] = SortByName(quotas[p])]
    /\ locks' = [locks EXCEPT ![p] = << >>]
    /\ pc' = [pc EXCEPT ![p] = "lock"]
    /\ UNCHANGED <<attr, syncVars, timeout, onceVars, invoked, created, mutex, rel, storeVars,
                   cycleVars, result>>
    /\ UNCHANGED <<imgVars, restVars>>

\* lockAquisition: one turn of the loop; GetLock creates the name's lock if there
\* is none, and lock.Lock() blocks while the lock is held
Lock(p) ==
    /\ pc[p] = "lock"
    /\ Len(locks[p]) < Len(LockOrder(quotas[p]))
    /\ LET d == LockOrder(quotas[p])[Len(locks[p]) + 1] IN
        /\ mutex[d] = NoProc
        /\ created' = created \cup {d}
        /\ mutex' = [mutex EXCEPT ![d] = p]
        /\ locks' = [locks EXCEPT ![p] = Append(@, d)]
    /\ UNCHANGED <<pc, attr, syncVars, timeout, onceVars, invoked, quotas, rel, storeVars,
                   cycleVars, result>>
    /\ UNCHANGED <<imgVars, restVars>>

\* lockAquisition returns the release function; the evaluator goes on to step 6
Locked(p) ==
    /\ pc[p] = "lock"
    /\ Len(locks[p]) = Len(LockOrder(quotas[p]))
    /\ pc' = [pc EXCEPT ![p] = "fetch"]
    /\ cur' = [cur EXCEPT ![p] = 1]
    /\ UNCHANGED <<attr, syncVars, timeout, onceVars, invoked, quotas, lockVars, storeVars,
                   fetched, retries, conflicts, wrote, fetchErrors, result>>
    /\ UNCHANGED <<imgVars, restVars>>

\* step 6: re-fetch one document from the store
Fetch(p) ==
    /\ pc[p] = "fetch"
    /\ LET d == quotas[p][cur[p]] IN
        /\ fetched' = [fetched EXCEPT ![p][d] = store[d]]
        /\ IF cur[p] < Len(quotas[p])
           THEN cur' = [cur EXCEPT ![p] = @ + 1] /\ UNCHANGED pc
           ELSE cur' = [cur EXCEPT ![p] = 1] /\ pc' = [pc EXCEPT ![p] = "check"]
    /\ UNCHANGED <<attr, syncVars, timeout, onceVars, invoked, quotas, lockVars, storeVars,
                   retries, conflicts, wrote, fetchErrors, result>>
    /\ UNCHANGED <<imgVars, restVars>>

\* a store read fails irrecoverably: the call is denied
FetchFails(p) ==
    /\ pc[p] \in {"fetch", "refetch"}
    /\ fetchErrors < MaxFetchErrors
    /\ fetchErrors' = fetchErrors + 1
    /\ result' = [result EXCEPT ![p] =
          ValidateReturn(Outcome("StoreError", quotas[p][cur[p]], {}, "store"))]
    /\ pc' = [pc EXCEPT ![p] = "release"]
    /\ UNCHANGED <<attr, syncVars, timeout, onceVars, invoked, quotas, lockVars, storeVars,
                   fetched, cur, retries, conflicts, wrote>>
    /\ UNCHANGED <<imgVars, restVars>>

\* step 7: every document's limits against the usage the request adds
Check(p) ==
    /\ pc[p] = "check"
    /\ LET over == {i \in 1..Len(quotas[p]) :
                       Exceeded(fetched[p][quotas[p][i]], attr[p].delta) # {}} IN
        IF over = {}
        THEN /\ pc' = [pc EXCEPT ![p] = "write"]
             /\ UNCHANGED result
        ELSE LET i == CHOOSE i \in over : \A j \in over : i <= j
                 d == quotas[p][i] IN
             /\ pc' = [pc EXCEPT ![p] = "release"]
             /\ result' = [result EXCEPT ![p] =
                   ValidateReturn(Outcome("Forbidden", d,
                       Exceeded(fetched[p][d], attr[p].delta), "exceeded quota"))]
    /\ UNCHANGED <<attr, syncVars, timeout, onceVars, invoked, quotas, lockVars, storeVars,
                   cycleVars>>
    /\ UNCHANGED <<imgVars, restVars>>

\* step 8: the compare-and-swap write of one document
Write(p) ==
    /\ pc[p] = "write"
    /\ LET d == quotas[p][cur[p]] IN
        IF CasAccepts(d, fetched[p][d].version)
        THEN /\ store' = [store EXCEPT ![d] =
                    [Charged(fetched[p][d], attr[p].delta) EXCEPT !.version = @ + 1]]
             /\ wrote' = [wrote EXCEPT ![p] = @ \cup {d}]
             /\ IF cur[p] < Len(quotas[p])
                THEN /\ cur' = [cur EXCEPT ![p] = @ + 1]
                     /\ retries' = [retries EXCEPT ![p] = 0]
                     /\ conflicts' = [conflicts EXCEPT ![p] = 0]
                     /\ UNCHANGED <<pc, result>>
                ELSE /\ pc' = [pc EXCEPT ![p] = "release"]
                     /\ result' = [result EXCEPT ![p] =
                           ValidateReturn(Outcome("Admit", NoDoc, {}, ""))]
                     /\ UNCHANGED <<cur, retries, conflicts>>
        ELSE /\ conflicts' = [conflicts EXCEPT ![p] = @ + 1]
             /\ IF retries[p] < MaxRetries
                THEN /\ pc' = [pc EXCEPT ![p] = "refetch"]
                     /\ UNCHANGED result
                ELSE /\ pc' = [pc EXCEPT ![p] = "release"]
                     /\ result' = [result EXCEPT ![p] =
                           ValidateReturn(Outcome("TransientFailure", d, {}, "conflict"))]
             /\ UNCHANGED <<store, wrote, cur, retries>>
    /\ UNCHANGED <<attr, syncVars, timeout, onceVars, invoked, quotas, lockVars, initUsed,
                   extWrites, fetched, fetchErrors>>
    /\ UNCHANGED <<imgVars, restVars>>

\* step 8, after a conflict: fetch and check that document again
Refetch(p) ==
    /\ pc[p] = "refetch"
    /\ LET d == quotas[p][cur[p]] IN
        /\ fetched' = [fetched EXCEPT ![p][d] = store[d]]
        /\ retries' = [retries EXCEPT ![p] = @ + 1]
        /\ IF Exceeded(store[d], attr[p].delta) = {}
           THEN /\ pc' = [pc EXCEPT ![p] = "write"]
                /\ UNCHANGED result
           ELSE /\ pc' = [pc EXCEPT ![p] = "release"]
                /\ result' = [result EXCEPT ![p] =
                      ValidateReturn(Outcome("Forbidden", d,
                          Exceeded(store[d], attr[p].delta), "exceeded quota"))]
    /\ UNCHANGED <<attr, syncVars, timeout, onceVars, invoked, quotas, lockVars, storeVars,
                   cur, conflicts, wrote, fetchErrors>>
    /\ UNCHANGED <<imgVars, restVars>>

\* step 9: the evaluator calls the release function
Release(p) ==
    /\ pc[p] = "release"
    /\ rel' = [rel EXCEPT ![p] = Len(locks[p])]
    /\ pc' = [pc EXCEPT ![p] = "unlock"]
    /\ UNCHANGED <<attr, syncVars, timeout, onceVars, invoked, quotas, created, mutex, locks,
                   storeVars, cycleVars, result>>
    /\ UNCHANGED <<imgVars, restVars>>

\* the release function: locks[i].Unlock(), one turn of its loop
Unlock(p) ==
    /\ pc[p] = "unlock"
    /\ ~ReleaseDone(rel[p])
    /\ mutex' = [mutex EXCEPT ![locks[p][rel[p]]] = NoProc]
    /\ rel' = [rel EXCEPT ![p] = @ - 1]
    /\ UNCHANGED <<pc, attr, syncVars, timeout, onceVars, invoked, quotas, created, locks,
                   storeVars, cycleVars, result>>
    /\ UNCHANGED <<imgVars, restVars>>

\* the release function returns; Evaluate and Validate return
Return(p) ==
    /\ pc[p] = "unlock"
    /\ ReleaseDone(rel[p])
    /\ pc' = [pc EXCEPT ![p] = "done"]
    /\ quotas' = [quotas EXCEPT ![p] = << >>]
    /\ locks' = [locks EXCEPT ![p] = << >>]
    /\ fetched' = [fetched EXCEPT ![p] = [d \in Docs |-> NoDocument]]
    /\ cur' = [cur EXCEPT ![p] = 0]
    /\ retries' = [retries EXCEPT ![p] = 0]
    /\ conflicts' = [conflicts EXCEPT ![p] = 0]
    /\ UNCHANGED <<attr, syncVars, timeout, onceVars, invoked, created, mutex, rel, storeVars,
                   wrote, fetchErrors, result>>
    /\ UNCHANGED <<imgVars, restVars>>

\* another writer updates a document: its version token moves.  Only the writes
\* that land between a call's fetch of the document and its write of it are
\* taken: no call can tell any other write from one that did not happen.
ExternalWrite(d) ==
    /\ extWrites < MaxExtWrites
    /\ \E p \in Procs :
        /\ pc[p] \in {"fetch", "check", "write"}
        /\ d \notin wrote[p]
        /\ fetched[p][d].version = store[d].version
    /\ extWrites' = extWrites + 1
    /\ store' = [store EXCEPT ![d].version = @ + 1]
    /\ UNCHANGED <<pc, attr, syncVars, timeout, onceVars, invoked, quotas, lockVars, initUsed,
                   cycleVars, result>>
    /\ UNCHANGED <<imgVars, restVars>>

Step(p) ==
    \/ Validate(p)
    \/ WaitCheck(p)
    \/ WaitTick(p)
    \/ WaitTimeout(p)
    \/ InitOnce(p)
    \/ Evaluate(p)
    \/ LockSort(p)
    \/ Lock(p)
    \/ Locked(p)
    \/ Fetch(p)
    \/ FetchFails(p)
    \/ Check(p)
    \/ Write(p)
    \/ Refetch(p)
    \/ Release(p)
    \/ Unlock(p)
    \/ Return(p)

Next ==
    \/ \E p \in Procs : Step(p)
    \/ \E p \in Procs : TimeoutFires(p)
    \/ ClusterQuotaSyncs
    \/ NamespaceSyncs
    \/ \E d \in Docs : ExternalWrite(d)

Spec == Init /\ [][Next]_vars

(* --------------- image policy: imageResolutionCache at work ----------- *)
\* what has happened since Admit accepted the object under admission: nothing,
\* the clock advanced, the store changed
Since(event) ==
    IF adm.phase # "admitted" THEN adm
    ELSE [adm EXCEPT !.since = IF event = "store" \/ @ = "store" THEN "store" ELSE "clock"]

\* time passes
Tick ==
    /\ now < MaxNow
    /\ now' = now + 1
    /\ adm' = Since("clock")
    /\ UNCHANGED <<quotaVars, restVars, images, stream, cache, resolved, policyVars>>

\* the stored image gets, or loses, the deny-execution annotation
Annotate ==
    /\ images' = [images EXCEPT ![Good].deny = ~@]
    /\ adm' = Since("store")
    /\ UNCHANGED <<quotaVars, restVars, now, stream, cache, resolved, policyVars>>

\* the image stream is updated: lookup policy, repository, tags
UpdateStream ==
    /\ \E s \in Streams : s # stream /\ stream' = s
    /\ adm' = Since("store")
    /\ UNCHANGED <<quotaVars, restVars, now, images, cache, resolved, policyVars>>

\* one call of resolveImageReference (ResolveObjectReference of a DockerImage
\* reference hands it the parsed pull spec)
ResolveImageReference(ref, defaultNamespace, force) ==
    LET r == resolveImageReference(cache, ref, defaultNamespace, force)
    IN  /\ resolved' = [called |-> TRUE, ref |-> ref, defaultNamespace |-> defaultNamespace,
                        force |-> force, attrs |-> r.attrs, err |-> r.err, gets |-> r.gets]
        /\ cache' = r.cache
        /\ UNCHANGED <<quotaVars, restVars, now, images, stream, policyVars, adm>>

ResolverNext ==
    \/ Tick
    \/ Annotate
    \/ UpdateStream
    \/ \E c \in Calls : ResolveImageReference(c.ref, c.defaultNamespace, c.force)

ResolverSpec == Init /\ [][ResolverNext]_vars

(* ----------------- image policy: resolutionConfig asked --------------- *)
\* a resolutionConfig answers for one resource, one operation and one resolved
\* reference (only its LocalRewrite mark is read)
newImagePolicyPlugin(config) ==
    /\ ~plugin.built
    /\ plugin' = [built |-> TRUE, config |-> config]
    /\ UNCHANGED <<quotaVars, restVars, resolverVars, decision, adm>>

Decide ==
    /\ plugin.built
    /\ \E gr \in GroupResources, isUpdate \in BOOLEAN, lr \in BOOLEAN :
        LET config == plugin.config IN
        /\ decision' =
              [asked |-> TRUE, resource |-> gr, update |-> isUpdate,
               LocalRewrite |-> lr,
               covers |-> resolutionConfig_Covers(config, gr),
               resolve |-> resolutionConfig_RequestsResolution(config, gr),
               fail |-> resolutionConfig_FailOnResolutionFailure(config, gr),
               rewrite |-> resolutionConfig_RewriteImagePullSpec(
                               config, [LocalRewrite |-> lr], isUpdate, gr)]
        /\ UNCHANGED <<quotaVars, restVars, resolverVars, plugin, adm>>

PolicyNext ==
    \/ \E config \in Configs : newImagePolicyPlugin(config)
    \/ Decide

PolicySpec == Init /\ [][PolicyNext]_vars

(* ------------------- image policy: Admit and Validate ----------------- *)
\* a tag of the image stream is bound to the image, or deleted
TagImage ==
    /\ stream' = [stream EXCEPT !.tags = IF DefaultImageTag \in @ THEN @ \ {DefaultImageTag}
                                          ELSE @ \cup {DefaultImageTag}]
    /\ adm' = Since("store")
    /\ UNCHANGED <<quotaVars, restVars, now, images, cache, resolved, policyVars>>

\* a request arrives with its object
Submit(obj) ==
    /\ plugin.built
    /\ adm.phase = "idle"
    /\ adm' = [NoAdmission EXCEPT !.phase = "submitted", !.obj = obj, !.submitted = obj.images]
    /\ UNCHANGED <<quotaVars, restVars, resolverVars, policyVars>>

\* imagePolicyPlugin.Admit
ImagePolicyAdmit ==
    /\ adm.phase = "submitted"
    /\ \E r \in {admit(cache, adm.obj, plugin.config, TRUE)} :
           /\ adm' = [adm EXCEPT !.phase = IF r.err = "" THEN "admitted" ELSE "rejected",
                                  !.obj.images = r.images,
                                  !.call = "Admit", !.err = r.err, !.outcomes = r.outcomes]
           /\ cache' = r.cache
    /\ UNCHANGED <<quotaVars, restVars, now, images, stream, resolved, policyVars>>

\* a later admission plugin sets an image of the admitted object back to what
\* it was when the request arrived
Tamper ==
    /\ adm.phase = "admitted"
    /\ \E i \in DOMAIN adm.obj.images :
        /\ adm.obj.images[i] # adm.submitted[i]
        /\ adm' = [adm EXCEPT !.obj.images[i] = adm.submitted[i], !.tampered = @ \cup {i},
                               !.call = "", !.err = "", !.outcomes = << >>]
    /\ UNCHANGED <<quotaVars, restVars, resolverVars, policyVars>>

\* imagePolicyPlugin.Validate
ImagePolicyValidate ==
    /\ adm.phase # "idle"
    /\ \E r \in {admit(cache, adm.obj, plugin.config, FALSE)} :
           /\ adm' = [adm EXCEPT !.obj.images = r.images,
                                  !.call = "Validate", !.err = r.err, !.outcomes = r.outcomes]
           /\ cache' = r.cache
    /\ UNCHANGED <<quotaVars, restVars, now, images, stream, resolved, policyVars>>

\* the request is over
Forget ==
    /\ adm.phase # "idle"
    /\ adm' = NoAdmission
    /\ UNCHANGED <<quotaVars, restVars, resolverVars, policyVars>>

AdmitNext ==
    \/ Tick
    \/ Annotate
    \/ TagImage
    \/ \E config \in AdmitConfigs : newImagePolicyPlugin(config)
    \/ \E obj \in Objects : Submit(obj)
    \/ ImagePolicyAdmit
    \/ Tamper
    \/ ImagePolicyValidate
    \/ Forget

AdmitSpec == Init /\ [][AdmitNext]_vars

(* ------------------------- scope authorizer --------------------------- *)
\* one call of scopeAuthorizer.Authorize
ScopeAuthorizerAuthorize ==
    \E attributes \in AuthorizerAttributes :
        \E d \in {Authorize(attributes)} :
            /\ authz' = [called |-> TRUE, attributes |-> attributes,
                         decision |-> d.decision, reason |-> d.reason, err |-> d.err]
            /\ UNCHANGED <<quotaVars, imgVars, istVars, cacheVars>>

AuthorizerSpec == Init /\ [][ScopeAuthorizerAuthorize]_vars

(* ------------------------ ImageStreamTag REST -------------------------- *)
\* REST.Create up to its loop; istag.Tag is set or nil
Create(p) ==
    /\ istag[p].pc = "idle"
    /\ \E tag \in Tags, hasTag \in BOOLEAN :
          istag' = [istag EXCEPT ![p] = [NoCall EXCEPT !.pc = "get", !.op = "Create",
                                                       !.tag = tag, !.hasTag = hasTag,
                                                       !.i = Attempts]]
    /\ UNCHANGED <<quotaVars, imgVars, authz, cacheVars, imageStream, streamWrites, streamErrors>>

\* Create, one turn of the loop up to the store write: the stream is read (a
\* stream that is not found is made up, with no creation timestamp), the tag is
\* looked up in its spec tags and, if istag.Tag is set, put there
CreateGet(p) ==
    /\ istag[p].pc = "get"
    /\ istag[p].op = "Create"
    /\ \E r \in GetImageStream :
        LET call == [istag[p] EXCEPT !.cycles = @ + 1] IN
        /\ streamErrors' = streamErrors + (IF r.err = "InternalError" THEN 1 ELSE 0)
        /\ istag' = [istag EXCEPT ![p] =
              IF r.err \notin {"", "NotFound"} THEN Returns(call, r.err)
              ELSE IF call.tag \in r.stream.spec THEN Returns(call, "AlreadyExists")
              ELSE [call EXCEPT !.pc = "write",
                                !.target = [r.stream EXCEPT !.spec =
                                               IF call.hasTag THEN @ \cup {call.tag} ELSE @]]]
    /\ UNCHANGED <<quotaVars, imgVars, authz, cacheVars, imageStream, streamWrites>>

\* Create, the store write of the turn and what follows it
CreateWrite(p) ==
    /\ istag[p].pc = "write"
    /\ istag[p].op = "Create"
    /\ \E r \in (IF ~istag[p].target.exists THEN CreateImageStream(istag[p].target)
                 ELSE UpdateImageStream(istag[p].target)) :
        LET call == [istag[p] EXCEPT !.lastErr = r.err,
                                     !.conflicts = IF r.err \in {"Conflict", "AlreadyExists"}
                                                   THEN @ + 1 ELSE @,
                                     !.wrote = IF r.err = "" THEN @ + 1 ELSE @] IN
        /\ streamErrors' = streamErrors + (IF r.err = "InternalError" THEN 1 ELSE 0)
        /\ imageStream' = IF r.err = "" THEN r.stream ELSE imageStream
        /\ istag' = [istag EXCEPT ![p] =
              IF Continues("Create", r.err) THEN Continue(call)
              ELSE IF r.err # "" THEN Returns(call, r.err)
              ELSE Returns(call, "Success")]
    /\ UNCHANGED <<quotaVars, imgVars, authz, cacheVars, streamWrites>>

\* REST.Delete up to its loop; options may carry a UID precondition
Delete(p) ==
    /\ istag[p].pc = "idle"
    /\ \E tag \in Tags, uidMet \in BOOLEAN :
          istag' = [istag EXCEPT ![p] = [NoCall EXCEPT !.pc = "get", !.op = "Delete",
                                                       !.tag = tag, !.uidMet = uidMet,
                                                       !.i = Attempts]]
    /\ UNCHANGED <<quotaVars, imgVars, authz, cacheVars, imageStream, streamWrites, streamErrors>>

\* Delete, one turn of the loop up to the store write
DeleteGet(p) ==
    /\ istag[p].pc = "get"
    /\ istag[p].op = "Delete"
    /\ \E r \in GetImageStream :
        LET call == [istag[p] EXCEPT !.cycles = @ + 1] IN
        /\ streamErrors' = streamErrors + (IF r.err = "InternalError" THEN 1 ELSE 0)
        /\ istag' = [istag EXCEPT ![p] =
              IF r.err # "" THEN Returns(call, r.err)
              ELSE IF ~call.uidMet THEN Returns(call, "Conflict")
              ELSE IF call.tag \notin r.stream.status \cup r.stream.spec
              THEN Returns(call, "NotFound")
              ELSE [call EXCEPT !.pc = "write",
                                !.target = [r.stream EXCEPT !.spec = @ \ {call.tag},
                                                            !.status = @ \ {call.tag}]]]
    /\ UNCHANGED <<quotaVars, imgVars, authz, cacheVars, imageStream, streamWrites>>

\* Delete, the store write of the turn and what follows it
DeleteWrite(p) ==
    /\ istag[p].pc = "write"
    /\ istag[p].op = "Delete"
    /\ \E r \in UpdateImageStream(istag[p].target) :
        LET call == [istag[p] EXCEPT !.lastErr = r.err,
                                     !.conflicts = IF r.err \in {"Conflict", "AlreadyExists"}
                                                   THEN @ + 1 ELSE @,
                                     !.wrote = IF r.err = "" THEN @ + 1 ELSE @] IN
        /\ streamErrors' = streamErrors + (IF r.err = "InternalError" THEN 1 ELSE 0)
        /\ imageStream' = IF r.err = "" THEN r.stream ELSE imageStream
        /\ istag' = [istag EXCEPT ![p] =
              IF Continues("Delete", r.err) THEN Continue(call)
              ELSE IF r.err # "" /\ r.err # "NotFound" THEN Returns(call, r.err)
              ELSE Returns(call, "Success")]
    /\ UNCHANGED <<quotaVars, imgVars, authz, cacheVars, streamWrites>>

\* another client updates the image stream (its resource version moves), or
\* deletes it.  Only the writes that land between a call's read of the stream and
\* its write are taken: no call can tell any other write from one that was made
\* before the call began.
StreamWritten ==
    /\ streamWrites < MaxStreamWrites
    /\ imageStream.exists
    /\ \E p \in Procs : /\ istag[p].pc = "write"
                        /\ istag[p].target.exists
                        /\ istag[p].target.version = imageStream.version
    /\ streamWrites' = streamWrites + 1
    /\ \E exists \in BOOLEAN :
          imageStream' = IF exists THEN [imageStream EXCEPT !.version = @ + 1]
                         ELSE ImageStream(FALSE, imageStream.version + 1, {}, {})
    /\ UNCHANGED <<quotaVars, imgVars, authz, cacheVars, istag, streamErrors>>

\* another client has created the image stream, with no tags, before the calls
StreamCreated ==
    /\ ~imageStream.exists
    /\ \A p \in Procs : istag[p].pc = "idle"
    /\ imageStream' = ImageStream(TRUE, imageStream.version + 1, {}, {})
    /\ UNCHANGED <<quotaVars, imgVars, authz, cacheVars, istag, streamWrites, streamErrors>>

ISTagNext ==
    \/ \E p \in Procs : \/ Create(p)
                        \/ CreateGet(p)
                        \/ CreateWrite(p)
                        \/ Delete(p)
                        \/ DeleteGet(p)
                        \/ DeleteWrite(p)
    \/ StreamWritten
    \/ StreamCreated

ISTagSpec == Init /\ [][ISTagNext]_vars

(* ------- image policy: concurrent resolutions, statement by statement -- *)
\* a resolution begins.  resolveImageReference of a reference with an ID reads
\* now(), looks the digest up in the cache and returns the cached image if the
\* entry has not expired; the other kinds go to the store at once
CacheLookup(p) ==
    /\ resolving[p].pc \in {"idle", "done"}
    /\ \E kind \in Kinds :
          resolving' = [resolving EXCEPT ![p] =
              IF kind = "DockerImage"
              THEN IF cache[Good].present /\ Before(now, cache[Good].expires)
                   THEN [NotResolving EXCEPT !.pc = "done", !.kind = kind, !.now = now,
                                             !.hit = TRUE, !.nil = FALSE,
                                             !.image = cache[Good].image,
                                             !.read = readAt[Good]]
                   ELSE [NotResolving EXCEPT !.pc = "fetch", !.kind = kind, !.now = now]
              ELSE [NotResolving EXCEPT !.pc = "fetch", !.kind = kind]]
    /\ UNCHANGED <<quotaVars, imgVars, authz, istVars, readAt, lru>>

\* the store read of the resolution
StoreRead(p) ==
    /\ resolving[p].pc = "fetch"
    /\ \E got \in StoreGet(resolving[p].kind) :
          resolving' = [resolving EXCEPT ![p] =
              IF got.err # NoError THEN FetchFailed([@ EXCEPT !.got = got.err], got.err)
              ELSE [@ EXCEPT !.pc = "add", !.image = got.image, !.read = now]]
    /\ UNCHANGED <<quotaVars, imgVars, authz, istVars, readAt, lru>>

\* c.cache.Add and the return.  The entry expires one expiration after the
\* call's now(): resolveImageReference has read it before the lookup,
\* resolveImageStreamTag and resolveImageStreamImage read it here
CacheAdd(p) ==
    /\ resolving[p].pc = "add"
    /\ LET t == IF resolving[p].kind = "DockerImage" THEN resolving[p].now ELSE now IN
        /\ cache' = Add(cache, Good, Entry(t + expiration, resolving[p].image))
        /\ readAt' = [readAt EXCEPT ![Good] = resolving[p].read]
        /\ resolving' = [resolving EXCEPT ![p] = [@ EXCEPT !.pc = "done", !.now = t,
                                                           !.nil = FALSE]]
    /\ UNCHANGED <<quotaVars, authz, istVars, lru, now, images, stream, resolved, policyVars,
                   adm>>

ConcurrentNext ==
    \/ Tick
    \/ UpdateStream
    \/ \E p \in Procs : CacheLookup(p) \/ StoreRead(p) \/ CacheAdd(p)

ConcurrentSpec == Init /\ [][ConcurrentNext]_vars

(* ------------- image policy: the cache as an LRU of 128 entries -------- *)
\* resolveImageReference of a reference with the digest d, the cache being the
\* LRU: Get, the expiry test, and on a miss the store read and Add
ResolveDigest(d) ==
    LET got == lruGet(lru, d)
        ref == Reference("index.docker.io", "", "mysql", "", d)
        hit == got.ok /\ Before(now, got.value.expires)
        image == IF hit THEN got.value.image ELSE StoredImage(d)
    IN  /\ lru' = IF hit THEN got.cache
                  ELSE lruAdd(got.cache, d, Entry(now + expiration, image))
        /\ resolved' = [called |-> TRUE, ref |-> ref, defaultNamespace |-> "repo",
                        force |-> FALSE,
                        attrs |-> Attributes(ref, image, ~hit /\ Matches(ref.Registry), FALSE),
                        err |-> NoError,
                        gets |-> IF hit THEN << >> ELSE <<"images">>]
        /\ UNCHANGED <<quotaVars, authz, istVars, resolving, readAt, now, images, stream, cache,
                       policyVars, adm>>

\* the LRU is filled with distinct digests; once it is full, digests are
\* resolved anew and again and time passes
LruNext ==
    \/ Len(lru) >= size /\ Tick
    \/ \E d \in NextDigests : ResolveDigest(d)

LruSpec == Init /\ [][LruNext]_vars

\* Scheduling: every goroutine that can take a step takes one; the timer of
\* time.After fires; a select whose timeout channel is ready takes that case (the
\* 100 ms timer it races with has only just been started); sync.Mutex hands a
\* lock that keeps being released to a goroutine that keeps waiting for it.
Fairness ==
    \A p \in Procs :
        /\ WF_vars(Step(p))
        /\ WF_vars(TimeoutFires(p))
        /\ SF_vars(WaitTimeout(p))
        /\ SF_vars(Lock(p))

FairSpec == Init /\ [][Next]_vars /\ Fairness

(* ============================== claims ================================ *)
Applicable(p) == Range(quotas[p])

\* the limited resources of document d that the call's delta would push over the
\* limit, counted from the usage the call fetched
Over(p, d) ==
    {r \in DOMAIN store[d].hard :
        fetched[p][d].used[r] + attr[p].delta[r] > store[d].hard[r]}

Plus(u, delta) == [r \in Resources |-> u[r] + delta[r]]

RECURSIVE SumOver(_, _, _)
SumOver(S, d, r) ==
    IF S = {} THEN 0
    ELSE LET p == CHOOSE x \in S : TRUE IN
         attr[p].delta[r] + SumOver(S \ {p}, d, r)

Denied(p) == result[p].kind \in {"Forbidden", "TransientFailure", "StoreError"}

InBlock(d) ==
    {p \in Procs : pc[p] \in {"fetch", "check", "write", "refetch"} /\ d \in Applicable(p)}

AdmittedOn(d) ==
    {p \in Procs : /\ pc[p] = "done" /\ invoked[p] /\ result[p].kind = "Admit"
                   /\ d \in DocumentsFor(attr[p].namespace)}

\* C2: the check-then-write blocks of one document exclude each other, no
\* document exceeds a hard limit, and once every call has returned each
\* document's stored usage is its initial usage plus the deltas of exactly the
\* admitted calls it applies to.
C2_SerializedUsage ==
    /\ \A d \in Docs : Cardinality(InBlock(d)) <= 1
    /\ \A d \in Docs : Fits(store[d])
    /\ (\A p \in Procs : pc[p] = "done") =>
          \A d \in Docs : \A r \in Resources :
              store[d].used[r] = initUsed[d][r] + SumOver(AdmittedOn(d), d, r)

\* C4: a call that was denied, for a limit or for a store round-trip that
\* failed, has written no document.
C4_NoPartialWrites ==
    \A p \in Procs : (pc[p] = "done" /\ Denied(p)) => wrote[p] = {}

\* a denied call that had already charged document 1
C4_PartialWrite ==
    \E p \in Procs : pc[p] = "done" /\ result[p].kind = "TransientFailure" /\ wrote[p] = {1}

\* the name the call's lockAquisition is about to lock
NextLock(p) == LockOrder(quotas[p])[Len(locks[p]) + 1]

Acquiring(p) == pc[p] = "lock" /\ Len(locks[p]) < Len(LockOrder(quotas[p]))

WaitsFor(p, q) == Acquiring(p) /\ q # p /\ mutex[NextLock(p)] = q

\* every lock a call holds has a smaller name than the locks it takes later
Ascending(p) ==
    /\ \A i, j \in 1..Len(locks[p]) : i < j => Less(locks[p][i], locks[p][j])
    /\ Acquiring(p) => \A i \in 1..Len(locks[p]) : Less(locks[p][i], NextLock(p))

NoCircularWait ==
    \A S \in SUBSET Procs :
        S # {} => \E p \in S : \A q \in S : ~WaitsFor(p, q)

\* C3: every lockAquisition call takes its locks in ascending name order, no set
\* of calls waits in a circle, and a call that has started to take its locks
\* comes to hold all of them.
C3_LockOrdering ==
    /\ [](\A p \in Procs : Ascending(p))
    /\ []NoCircularWait
    /\ \A p \in Procs : (pc[p] = "lock") ~> (pc[p] = "fetch")

\* a call holds both locks, taken in name order, while the other call, which
\* needs one of them, waits
C3_Witness ==
    \E p, q \in Procs :
        /\ pc[p] = "fetch" /\ locks[p] = <<1, 2>> /\ HeldBy(p) = {1, 2}
        /\ WaitsFor(q, p)

\* C5: every change of a document's usage is a write of a call that holds the
\* document's lock, whose expected version is the version it fetched and the
\* store's current one, and it leaves the hard map as it was.
C5_WriteDiscipline ==
    [][\A d \in Docs :
          store'[d].used # store[d].used \/ store'[d].hard # store[d].hard =>
              \E p \in Procs :
                  /\ mutex[d] = p
                  /\ pc[p] = "write" /\ quotas[p][cur[p]] = d
                  /\ fetched[p][d].version = store[d].version
                  /\ store'[d].version # store[d].version
                  /\ store'[d].hard = store[d].hard
                  /\ store'[d].used = Plus(fetched[p][d].used, attr[p].delta)]_vars

\* a call has charged document 2 while holding its lock
C5_Witness ==
    \E p \in Procs :
        /\ 2 \in wrote[p] /\ mutex[2] = p
        /\ store[2].used # initUsed[2]

\* C6: each version conflict starts one retry of the document's cycle, at most
\* MaxRetries of them; the conflict after the last retry ends the call with
\* TransientFailure, never Forbidden, and the document unwritten by the call
\* (a retry whose store read fails ends the call with that error instead).
C6_ConflictRetry ==
    \A p \in Procs :
        /\ retries[p] <= MaxRetries
        /\ pc[p] = "write" => conflicts[p] = retries[p]
        /\ pc[p] = "refetch" => conflicts[p] = retries[p] + 1
        /\ (/\ pc[p] \in {"release", "unlock"} /\ conflicts[p] > retries[p]
            /\ result[p].kind # "StoreError") =>
              /\ conflicts[p] = MaxRetries + 1
              /\ retries[p] = MaxRetries
              /\ result[p].kind = "TransientFailure"
              /\ result[p].doc \notin wrote[p]
        /\ result[p].kind = "TransientFailure" =>
              /\ result[p].why = "conflict"
              /\ result[p].doc \notin wrote[p]

\* a call has used up its retries on document 2
C6_Witness ==
    \E p \in Procs :
        /\ pc[p] = "release" /\ result[p].kind = "TransientFailure"
        /\ result[p].doc = 2 /\ conflicts[p] = MaxRetries + 1

Waiting(p) == pc[p] \in {"wait", "select"}

Evaluating(p) == pc[p] \notin {"start", "wait", "select", "done"}

\* C7: a call whose wait is ended by the timeout while a cache is not
\* synchronized returns Forbidden("caches not synchronized") without building or
\* entering the evaluator; the evaluator is built and entered only when both
\* caches have reported synchronized.
C7_FailClosed ==
    /\ [](\A p \in Procs :
            /\ result[p].why = "caches not synchronized" =>
                  /\ result[p].kind = "Forbidden" /\ pc[p] = "done"
                  /\ ~invoked[p] /\ evaluator # p /\ timeout[p]
            /\ (Evaluating(p) \/ invoked[p] \/ evaluator = p) => Synced)
    /\ [][\A p \in Procs :
            (pc[p] = "select" /\ pc'[p] # "wait" /\ pc'[p] # "select" /\ ~Synced) =>
                 /\ pc'[p] = "done"
                 /\ result'[p] = Outcome("Forbidden", NoDoc, {}, "caches not synchronized")
                 /\ evaluator' = evaluator /\ invoked' = invoked]_vars

\* one call timed out on the namespace cache; the other was evaluated after it synced
C7_Witness ==
    \E p, q \in Procs :
        /\ pc[p] = "done" /\ result[p].why = "caches not synchronized"
        /\ invoked[q] /\ evaluator = q

\* C8 as the design document states it: a cache-sync timeout is a TransientFailure
C8_TimeoutIsTransient ==
    \A p \in Procs :
        (pc[p] = "done" /\ timeout[p]) => result[p].kind = "TransientFailure"

\* C8, amended: a cache-sync timeout is returned as Forbidden, the kind a limit
\* denial has; TransientFailure is returned for used-up retries only.
C8_TimeoutIsForbidden ==
    \A p \in Procs :
        /\ (pc[p] = "done" /\ timeout[p]) =>
              result[p] = Outcome("Forbidden", NoDoc, {}, "caches not synchronized")
        /\ result[p].kind = "TransientFailure" => (invoked[p] /\ ~timeout[p])

\* a call has returned from a timed-out wait
C8_Witness ==
    \E p \in Procs : pc[p] = "done" /\ timeout[p] /\ ~clusterQuotaSynced

\* C9: the release function unlocks the lock the call took last among those it
\* still holds, only locks the call holds and nothing else; a call that is not
\* between lockAquisition and the end of its release function holds no lock.
C9_Release ==
    /\ [](\A p \in Procs :
            pc[p] \in {"start", "wait", "select", "init", "evaluate", "sort", "done"} =>
                HeldBy(p) = {})
    /\ [][\A p \in Procs : \A d \in Docs :
            (mutex[d] = p /\ mutex'[d] # p) =>
                /\ pc[p] = "unlock"
                /\ d = locks[p][Cardinality(HeldBy(p))]
                /\ mutex' = [mutex EXCEPT ![d] = NoProc]]_vars
    /\ [][\A p \in Procs :
            rel'[p] < rel[p] => mutex[locks[p][rel[p]]] = p]_vars

\* a call that used up its retries has returned and holds nothing, after taking two locks
C9_Witness ==
    \E p \in Procs :
        /\ pc[p] = "done" /\ result[p].kind = "TransientFailure"
        /\ attr[p].namespace = "nsA" /\ HeldBy(p) = {}

\* C10: waitForSyncedStore returns true only with both caches synchronized, and
\* every call that waits stops waiting.
C10_WaitTerminates ==
    /\ [](\A p \in Procs : pc[p] = "init" => Synced)
    /\ \A p \in Procs : Waiting(p) ~> ~Waiting(p)

\* a call is still waiting after its timeout has fired
C10_Witness ==
    \E p \in Procs : pc[p] = "wait" /\ timeout[p] /\ ~Synced


(* ------------------------------- C11 ---------------------------------- *)
\* C11: Validate on an operation that targets a subresource or has no namespace
\* returns success at once and changes nothing else: the step that takes the
\* operation ends the call with "Admit" and leaves the caches' sync state, the
\* evaluator and its construction, every lock and every quota document as they
\* were, and the call never reaches the wait, the evaluator or a lock.
OutOfScope(a) == a.subresource \/ a.namespace = ""

IgnoredCall(p) == pc[p] # "start" /\ OutOfScope(attr[p])

C11_IgnoredIsNoOp ==
    /\ [](\A p \in Procs : IgnoredCall(p) =>
            /\ pc[p] = "done"
            /\ result[p] = Outcome("Admit", NoDoc, {}, "")
            /\ ~invoked[p] /\ locks[p] = << >> /\ HeldBy(p) = {}
            /\ quotas[p] = << >> /\ wrote[p] = {})
    /\ [][\A p \in Procs : pc[p] = "start" /\ pc'[p] # "start" /\ OutOfScope(attr'[p]) =>
            /\ pc'[p] = "done"
            /\ UNCHANGED <<syncVars, timeout, onceVars, invoked, quotas, lockVars,
                           storeVars, cycleVars>>]_vars

\* an operation on a subresource of a namespace that has quota documents was
\* ignored while the caches were still unsynchronized and no evaluator existed
C11_Witness ==
    \E p \in Procs :
        /\ pc[p] = "done" /\ attr[p].subresource /\ attr[p].namespace = "nsA"
        /\ result[p].kind = "Admit"
        /\ ~Synced /\ built = 0 /\ evaluator = NoProc


(* ------------------------------- C20 ---------------------------------- *)
\* the rules of the asked configuration that cover the asked resource
CoveringRules ==
    {i \in DOMAIN plugin.config.ResolutionRules :
        resolutionRuleCoversResource(plugin.config.ResolutionRules[i].TargetResource,
                                     decision.resource)}
\* a covering rule asks for the rewrite: by local names, or by its own policy
RuleRewrites ==
    \E i \in CoveringRules :
        LET rule == plugin.config.ResolutionRules[i]
        IN  \/ rule.LocalNames /\ decision.LocalRewrite
            \/ rule.Policy \in {"RequiredRewrite", "AttemptRewrite"}
ImmutableOnUpdate ==
    decision.update /\ decision.resource \in {Jobs, Builds, StatefulSets}
GlobalRewrites == plugin.config.ResolveImages \in {"RequiredRewrite", "AttemptRewrite"}

\* C20 as stated: RewriteImagePullSpec decides by the per-resource rules first,
\* then by the immutable-on-update exclusion, then by the global policy.
C20_RulesBeforeUpdateExclusion ==
    decision.asked =>
        decision.rewrite = (IF CoveringRules # {} THEN RuleRewrites
                            ELSE IF ImmutableOnUpdate THEN FALSE
                            ELSE GlobalRewrites)

\* C20 (amended): RewriteImagePullSpec decides by the immutable-on-update
\* exclusion first (never rewrite jobs, builds and stateful sets on update),
\* then by the per-resource rules that cover the resource (rewrite iff one of
\* them asks for it), and by the global policy only when no rule covers it.
C20_UpdateExclusionBeforeRules ==
    decision.asked =>
        decision.rewrite = (IF ImmutableOnUpdate THEN FALSE
                            ELSE IF CoveringRules # {} THEN RuleRewrites
                            ELSE GlobalRewrites)

\* an update of a job whose covering rule asks for the rewrite is not rewritten
C20_Witness ==
    /\ decision.asked /\ ImmutableOnUpdate /\ RuleRewrites
    /\ ~decision.rewrite


(* --------------------------- C12 .. C18 ------------------------------- *)
\* the step is a call of resolveImageReference; resolved' holds its arguments
ResolveStep ==
    /\ resolved'.called
    /\ ResolveImageReference(resolved'.ref, resolved'.defaultNamespace, resolved'.force)

\* the cache holds an entry for the digest that has not expired
Fresh(id) == cache[id].present /\ now < cache[id].expires

\* C12: resolving a digest-qualified reference while the cache holds an entry
\* for the digest with now < expiration returns the cached image without a store
\* fetch (so a change of the stored image is not seen); with no entry, or with
\* now >= expiration, the store is fetched once, the fetched image is returned
\* and the entry is replaced by that image with expiration = now + 1 minute.
C12_CacheTTL ==
    [][\A id \in Digests : (ResolveStep /\ resolved'.ref.ID = id) =>
          IF Fresh(id)
          THEN /\ resolved'.gets = << >>
               /\ resolved'.err = NoError
               /\ resolved'.attrs.Image = cache[id].image
               /\ cache' = cache
          ELSE /\ resolved'.gets = <<"images">>
               /\ resolved'.err = NoError
               /\ resolved'.attrs.Image = images[id]
               /\ cache' = [cache EXCEPT ![id] =
                              [present |-> TRUE, expires |-> now + expiration,
                               image |-> images[id]]]]_vars

\* a resolution served from the cache returned the image as it was before the
\* store's copy got the deny-execution annotation
C12_Witness ==
    /\ resolved.called /\ resolved.ref.ID = Good /\ resolved.gets = << >>
    /\ ~resolved.attrs.Image.deny
    /\ images[Good].deny

\* C13: resolving the same digest-qualified reference again within the TTL
\* window returns the attributes the call before it returned, all fields equal,
\* whether either call was served by the store or by the cache.
C13_IdenticalWithinTTL ==
    [][(/\ resolved.called /\ resolved.err = NoError /\ resolved.ref.ID \in Digests
        /\ ResolveStep /\ resolved'.ref = resolved.ref
        /\ Fresh(resolved.ref.ID))
       => resolved'.attrs = resolved.attrs]_vars

\* C16 as stated: with the tag binding absent and the stream present, the
\* reference repository:tag is synthesized iff the stream's lookup policy is
\* local and its repository is known.
TagLookup(r) ==
    /\ r.ref.ID = ""
    /\ \/ r.force
       \/ r.ref.Registry = integrated
       \/ r.ref.Registry = "" /\ r.ref.Namespace = ""
LookupNamespace(r) ==
    IF r.ref.Namespace = "" \/ r.force THEN r.defaultNamespace ELSE r.ref.Namespace
LookupTag(r) == IF r.ref.Tag = "" THEN "latest" ELSE r.ref.Tag
\* the tag binding is absent but its stream exists
TagAbsent(r) ==
    TagLookup(r) /\ LookupNamespace(r) = "repo" /\ LookupTag(r) \notin stream.tags
Synthesized(r) ==
    /\ r.err = NoError
    /\ r.attrs.Name = [Registry |-> "integrated.registry", Namespace |-> "repo",
                       Name |-> "mysql", Tag |-> LookupTag(r), ID |-> ""]
    /\ r.attrs.LocalRewrite
    /\ r.attrs.Image = NoImage
FailedNotFound(r) ==
    /\ r.err # NoError /\ r.err.notFound
    /\ r.attrs.Name = NoReference
    /\ ~r.attrs.LocalRewrite
    /\ r.attrs.Image = NoImage

C16_FallbackByStreamPolicy ==
    [][(ResolveStep /\ TagAbsent(resolved')) =>
          IF stream.Local /\ stream.DockerImageRepository # ""
          THEN Synthesized(resolved')
          ELSE FailedNotFound(resolved')]_vars

\* C16 (amended): with the tag binding absent and the stream present, the
\* reference repository:tag is synthesized (LocalRewrite set, Image unset) iff
\* the stream's repository is known and either the stream's lookup policy is
\* local or the caller forces local-name resolution; otherwise the resolution
\* fails with the not-found error and synthesizes nothing.
C16_Fallback ==
    [][(ResolveStep /\ TagAbsent(resolved')) =>
          IF (stream.Local \/ resolved'.force) /\ stream.DockerImageRepository # ""
          THEN Synthesized(resolved')
          ELSE FailedNotFound(resolved')]_vars

\* the caller forced local names and the stream's own lookup policy is not local
C16_Witness ==
    /\ resolved.called /\ TagAbsent(resolved) /\ Synthesized(resolved)
    /\ resolved.force /\ ~stream.Local

\* C17 as stated: a reference with neither tag nor digest is an error unless
\* the caller forces local-name resolution.
C17_ErrorUnlessForced ==
    (resolved.called /\ resolved.ref.Tag = "" /\ resolved.ref.ID = "" /\ ~resolved.force)
        => resolved.err # NoError

\* C17 (amended): a reference without a digest is the error "could not be
\* resolved to an exact image reference", with no store lookup, exactly when the
\* caller does not force local-name resolution, its registry is not the
\* integrated registry and it is not a bare single-segment name; its tag plays
\* no part.  Every other reference without a digest is looked up as an image
\* stream tag.
C17_ErrorUnlessLocal ==
    (resolved.called /\ resolved.ref.ID = "") =>
        IF TagLookup(resolved)
        THEN resolved.err # CouldNotBeResolved /\ resolved.gets # << >>
                /\ resolved.gets[1] = "imagestreamtags"
        ELSE resolved.err = CouldNotBeResolved /\ resolved.gets = << >>
                /\ resolved.attrs = NilAttributes

\* a tagged reference to another registry, not forced, is the error as well
C17_Witness ==
    /\ resolved.called /\ resolved.ref.ID = "" /\ resolved.ref.Tag = "other"
    /\ resolved.ref.Registry = "index.docker.io" /\ ~resolved.force
    /\ resolved.err = CouldNotBeResolved

\* C18: a reference with both a tag and a digest is resolved by the digest
\* only: the image is looked up by the digest in the cache, then in the image
\* store, no tag binding and no stream is read, and the image returned is the
\* one of that digest.
C18_DigestOnly ==
    (resolved.called /\ resolved.ref.ID # "" /\ resolved.ref.Tag # "") =>
        /\ resolved.gets \in {<< >>, <<"images">>}
        /\ resolved.err = NoError =>
              /\ resolved.attrs.Image.Name = resolved.ref.ID
              /\ resolved.attrs.Name = resolved.ref
              /\ ~resolved.attrs.LocalRewrite

C18_Witness ==
    /\ resolved.called /\ resolved.ref.ID = Good /\ resolved.ref.Tag = "other"
    /\ resolved.err = NoError /\ resolved.gets = <<"images">>

(* ------------------------- Admit and Validate -------------------------- *)
\* a Reject rule of the plugin that is on the object's resource and is not
\* excluded for its namespace matches the attributes
Prohibited(attrs) ==
    \E i \in DOMAIN plugin.config.ExecutionRules :
        LET rule == plugin.config.ExecutionRules[i]
        IN  /\ rule.Reject
            /\ adm.obj.resource \in rule.OnResources
            /\ rule.Name \notin adm.obj.excluded
            /\ rule.MatchRegistries # {} => attrs.Name.Registry \in rule.MatchRegistries
            /\ rule.MatchImageAnnotations => attrs.Image # NoImage /\ attrs.Image.deny

\* this step is Validate of an admitted object, image i of which Admit had
\* rewritten and was then set back to a form that this resolution rewrites
RevalidatesSetBack(i) ==
    /\ ImagePolicyValidate
    /\ adm.phase = "admitted"
    /\ i \in adm.tampered
    /\ adm.obj.images[i] = adm.submitted[i]
    /\ adm'.outcomes[i].ref.Name # adm.obj.images[i]

AdmitsHandled ==
    /\ ImagePolicyAdmit
    /\ adm.obj.operation \in {"CREATE", "UPDATE"}
    /\ ~adm.obj.subresource
AccepterCovers == \E i \in DOMAIN plugin.config.ExecutionRules :
                      adm.obj.resource \in plugin.config.ExecutionRules[i].OnResources
PolicyCovers == resolutionConfig_Covers(plugin.config, adm.obj.resource)
\* Admit returns without reading the store or touching the object or the cache
Uninspected ==
    /\ adm'.err = ""
    /\ adm'.outcomes = << >>
    /\ adm'.obj.images = adm.obj.images
    /\ cache' = cache

CoversAsked(rule) ==
    /\ rule.TargetResource.Group = decision.resource.Group
    /\ rule.TargetResource.Resource \in {decision.resource.Resource, "*"}
SomeRuleCovers ==
    \E i \in DOMAIN plugin.config.ResolutionRules : CoversAsked(plugin.config.ResolutionRules[i])
\* some covering rule has a rewriting Policy, or has LocalNames while the
\* attributes carry LocalRewrite
SomeCoveringRuleRewrites ==
    \E i \in DOMAIN plugin.config.ResolutionRules :
        LET rule == plugin.config.ResolutionRules[i]
        IN  /\ CoversAsked(rule)
            /\ \/ rule.Policy \in {"AttemptRewrite", "RequiredRewrite"}
               \/ rule.LocalNames /\ decision.LocalRewrite
UpdateOfImmutable ==
    decision.update /\ decision.resource \in {Jobs, Builds, StatefulSets}

\* C21 as stated: when a rule covers the resource RewriteImagePullSpec returns
\* true iff some covering rule rewrites, whatever the global policy is; when no
\* rule covers it the global policy decides.
C21_RulesOverrideGlobal ==
    decision.asked =>
        /\ SomeRuleCovers => (decision.rewrite <=> SomeCoveringRuleRewrites)
        /\ ~SomeRuleCovers =>
              (decision.rewrite <=>
                  plugin.config.ResolveImages \in {"AttemptRewrite", "RequiredRewrite"})

\* C21 (amended): unless the request is an update of a job, build or stateful
\* set (then RewriteImagePullSpec returns false), when a rule covers the
\* resource it returns true iff some covering rule rewrites, whatever the
\* global policy is, and when no rule covers it the global policy decides.
C21_RulesOverrideGlobalUnlessImmutable ==
    decision.asked =>
        /\ UpdateOfImmutable => ~decision.rewrite
        /\ (~UpdateOfImmutable /\ SomeRuleCovers) =>
              (decision.rewrite <=> SomeCoveringRuleRewrites)
        /\ (~UpdateOfImmutable /\ ~SomeRuleCovers) =>
              (decision.rewrite <=>
                  plugin.config.ResolveImages \in {"AttemptRewrite", "RequiredRewrite"})

\* a covering rule that does not rewrite keeps a RequiredRewrite global policy
\* from rewriting
C21_Witness ==
    /\ decision.asked /\ ~UpdateOfImmutable
    /\ SomeRuleCovers /\ ~SomeCoveringRuleRewrites
    /\ plugin.config.ResolveImages = "RequiredRewrite"
    /\ ~decision.rewrite

\* C22: on an update of a job, build or stateful set RewriteImagePullSpec
\* returns false whatever the configuration, rules and attributes are;
\* RequestsResolution does not depend on the operation (it is true iff the
\* global policy requests resolution or a rule covers the resource); on a
\* create of these kinds the rules and the global policy decide the rewrite.
C22_NoRewriteOnUpdateOfImmutable ==
    (decision.asked /\ decision.resource \in {Jobs, Builds, StatefulSets}) =>
        /\ decision.update => ~decision.rewrite
        /\ decision.resolve <=>
              \/ plugin.config.ResolveImages \in
                    {"Attempt", "AttemptRewrite", "Required", "RequiredRewrite"}
              \/ SomeRuleCovers
        /\ ~decision.update =>
              (decision.rewrite <=>
                  IF SomeRuleCovers THEN SomeCoveringRuleRewrites
                  ELSE plugin.config.ResolveImages \in {"AttemptRewrite", "RequiredRewrite"})

\* an update of a build is not rewritten although a covering LocalNames rule
\* and LocalRewrite are present, and its resolution is still requested
C22_Witness ==
    /\ decision.asked /\ decision.update /\ decision.resource = Builds
    /\ decision.LocalRewrite
    /\ \E i \in DOMAIN plugin.config.ResolutionRules :
          CoversAsked(plugin.config.ResolutionRules[i])
              /\ plugin.config.ResolutionRules[i].LocalNames
    /\ ~decision.rewrite
    /\ decision.resolve

(* ---------------- C24: one evaluator, one lock factory ---------------- *)
\* the names whose lock the call has taken in lockAquisition and not yet handed
\* back in the release function, by the call's own locks slice
HeldNames(p) ==
    IF pc[p] = "unlock" THEN {locks[p][i] : i \in 1..rel[p]}
    ELSE IF pc[p] = "done" THEN {}
    ELSE Range(locks[p])

\* the call is inside q.evaluator.Evaluate
Contending(p) == pc[p] \in {"sort", "lock", "fetch", "check", "write", "refetch", "release",
                            "unlock"}

\* C24: across concurrent Validate calls the evaluator is constructed at most
\* once, and only by a call whose wait for the caches succeeded (it stands after
\* waitForSyncedStore, both informers synced); once constructed it is never
\* replaced; a call enters Evaluate only when the evaluator exists; and the calls
\* contend on the same per-name locks: a call takes a name's lock only when no
\* other call holds that name, so no name is ever held by two calls.
C24_OneEvaluator ==
    [][ /\ built' <= 1
        /\ (evaluator # NoProc => evaluator' = evaluator /\ built' = built)
        /\ (evaluator' # evaluator =>
               /\ built' = built + 1
               /\ pc[evaluator'] = "init"
               /\ clusterQuotaSynced /\ namespaceSynced)
        /\ \A p \in Procs :
               /\ (invoked'[p] /\ ~invoked[p] => evaluator # NoProc /\ built = 1)
               /\ (Contending(p)' => evaluator' # NoProc)
               /\ \A d \in HeldNames(p)' \ HeldNames(p) :
                      \A q \in Procs \ {p} : d \notin HeldNames(q)
        /\ \A p, q \in Procs : p # q => (HeldNames(p) \cap HeldNames(q))' = {} ]_vars

\* two calls are inside Evaluate at once, one of them constructed the evaluator,
\* and one holds a lock the other is about to ask for
C24_Witness ==
    \E p, q \in Procs :
        /\ p # q
        /\ evaluator = p
        /\ invoked[p] /\ invoked[q]
        /\ HeldNames(p) # {}
        /\ pc[q] = "lock" /\ Len(locks[q]) < Len(quotas[q])
        /\ quotas[q][Len(locks[q]) + 1] \in HeldNames(p)

(* ------------- C25: lockAquisition on any list of quotas -------------- *)
\* lockAquisition is handed a quotas slice: any list of documents, a name
\* repeated or not
LockAquisitionCalled(p) ==
    /\ pc[p] = "start"
    /\ \E qs \in SeqsUpTo(Docs, MaxQuotas) : quotas' = [quotas EXCEPT ![p] = qs]
    /\ pc' = [pc EXCEPT ![p] = "sort"]
    /\ UNCHANGED <<attr, syncVars, timeout, onceVars, invoked, lockVars, storeVars, cycleVars,
                   result>>
    /\ UNCHANGED <<imgVars, restVars>>

\* lockAquisition returns the release function; its caller holds the locks until
\* it calls that function
LockAquisitionReturns(p) ==
    /\ pc[p] = "lock"
    /\ Len(locks[p]) = Len(LockOrder(quotas[p]))
    /\ pc' = [pc EXCEPT ![p] = "release"]
    /\ UNCHANGED <<attr, syncVars, timeout, onceVars, invoked, quotas, lockVars, storeVars,
                   cycleVars, result>>
    /\ UNCHANGED <<imgVars, restVars>>

LockNext ==
    \E p \in Procs :
        \/ LockAquisitionCalled(p)
        \/ LockSort(p)
        \/ Lock(p)
        \/ LockAquisitionReturns(p)
        \/ Release(p)
        \/ Unlock(p)
        \/ Return(p)

LockSpec == Init /\ [][LockNext]_vars

\* how many entries of the slice carry the name
Entries(s, d) == Cardinality({i \in DOMAIN s : s[i] = d})

\* the call is about to Lock() a lock that it took itself earlier in the loop
BlocksOnItself(p) == Acquiring(p) /\ mutex[NextLock(p)] = p

\* C25: a lockAquisition call never blocks on a lock that the same call already
\* holds, for every list of quotas, one with a repeated name included (so the
\* only holders it can wait for are other calls); and it only permutes the
\* caller's slice: after the sort every name has as many entries as before.
C25_NeverBlocksOnItself ==
    [][ \A p \in Procs :
          /\ ~BlocksOnItself(p)'
          /\ (pc[p] = "sort" /\ pc'[p] = "lock" =>
                 /\ Len(quotas'[p]) = Len(quotas[p])
                 /\ \A d \in Docs : Entries(quotas'[p], d) = Entries(quotas[p], d)) ]_vars

(* ---------------- C30: scopeAuthorizer never allows ------------------- *)
\* what scope.ScopesToRules gave the latest call
ScopeRules ==
    ScopesToRules(authz.attributes.user.scopes, authz.attributes.namespace,
                  authz.attributes.clusterRoles)

ScopesPresent == authz.attributes.user.present /\ Len(authz.attributes.user.scopes) > 0

ScopeRulesAllow == RulesAllow(authz.attributes, ScopeRules.rules)

\* C30: scopeAuthorizer.Authorize never returns Allow.  It returns NoOpinion with
\* an error when the user is missing; NoOpinion, without error, when the user
\* carries no scopes or the rules derived from the scopes allow the request; Deny
\* exactly when scopes are present and their rules do not allow it.  An error of
\* the scope resolution changes neither the decision nor the returned error: it
\* only is appended to the reason of a Deny.
C30_NeverAllows ==
    authz.called =>
        /\ authz.decision # DecisionAllow
        /\ authz.decision \in {DecisionNoOpinion, DecisionDeny}
        /\ (~authz.attributes.user.present =>
               authz.decision = DecisionNoOpinion /\ authz.err # "" /\ authz.reason = << >>)
        /\ (authz.attributes.user.present => authz.err = "")
        /\ (authz.attributes.user.present /\ ~ScopesPresent =>
               authz.decision = DecisionNoOpinion /\ authz.reason = << >>)
        /\ (ScopesPresent /\ ScopeRulesAllow =>
               authz.decision = DecisionNoOpinion /\ authz.reason = << >>)
        /\ (authz.decision = DecisionDeny <=> ScopesPresent /\ ~ScopeRulesAllow)
        /\ (authz.decision = DecisionDeny =>
               authz.reason = <<authz.attributes.user.scopes, ScopeRules.errs>>)

\* a call whose scope resolution reported an error while another of its scopes
\* allows the request: no opinion, no error, no reason
C30_Witness ==
    /\ authz.called
    /\ ScopesPresent
    /\ ScopeRules.errs # << >>
    /\ ScopeRulesAllow
    /\ authz.attributes.path # "/version"
    /\ authz.decision = DecisionNoOpinion

(* ------------- C28, C29: ImageStreamTag Create and Delete -------------- *)
\* the call makes the store write of its turn, and the call starts a turn
WriteStep(p) == istag[p].pc = "write" /\ istag'[p].pc # "write"
GetStep(p) == istag[p].pc = "get" /\ istag'[p] # istag[p]

\* what the store write of the step returned is an error the loop does not go on
\* after: not a Conflict, and for Create not AlreadyExists
OtherWriteError(p) ==
    /\ istag'[p].lastErr \notin {"", "Conflict"}
    /\ ~(istag[p].op = "Create" /\ istag'[p].lastErr = "AlreadyExists")

\* at most 10 turns; a further turn only after a Conflict (Create: or an
\* AlreadyExists) from the store write; ServerTimeout exactly when all 10 turns
\* conflicted; every turn reads the stream anew and a write that succeeds was
\* made on the stream as the store then held it
BoundedFreshCycles(p) ==
    /\ istag'[p].cycles <= Attempts
    /\ (GetStep(p) /\ istag[p].cycles >= 1 =>
           \/ istag[p].lastErr = "Conflict"
           \/ istag[p].op = "Create" /\ istag[p].lastErr = "AlreadyExists")
    /\ (istag'[p].result = "ServerTimeout" <=>
           istag'[p].pc = "done" /\ istag'[p].conflicts = Attempts)
    /\ (istag'[p].result = "ServerTimeout" => istag'[p].cycles = Attempts)
    /\ (GetStep(p) /\ istag'[p].pc = "write" =>
           /\ istag'[p].target.exists = imageStream.exists
           /\ imageStream.exists => istag'[p].target.version = imageStream.version)
    /\ (WriteStep(p) /\ istag'[p].lastErr = "" =>
           /\ istag'[p].wrote = 1
           /\ istag[p].target.exists = imageStream.exists
           /\ imageStream.exists => istag[p].target.version = imageStream.version)

\* C28 (as stated): ImageStreamTag Create and Delete each perform at most 10
\* get-modify-write cycles, start a new cycle only after a Conflict (Create also
\* after AlreadyExists) from the store write, return any other error of the store
\* write immediately, return ServerTimeout when all 10 cycles conflicted, and
\* re-read the stream in each cycle so that no write is based on a stale copy.
C28_BoundedRetry ==
    [][ \A p \in Procs :
          /\ BoundedFreshCycles(p)
          /\ (WriteStep(p) /\ OtherWriteError(p) =>
                 istag'[p].pc = "done" /\ istag'[p].result = istag'[p].lastErr) ]_vars

\* C28 (amended): the same, except that Delete does not return a NotFound of the
\* store write: the stream is gone, and Delete returns success.
C28_BoundedRetryDeleteOfGoneStream ==
    [][ \A p \in Procs :
          /\ BoundedFreshCycles(p)
          /\ (WriteStep(p) /\ OtherWriteError(p) =>
                 /\ istag'[p].pc = "done"
                 /\ istag'[p].result =
                        IF istag[p].op = "Delete" /\ istag'[p].lastErr = "NotFound"
                        THEN "Success" ELSE istag'[p].lastErr) ]_vars

\* a call has conflicted in all 10 cycles and returned ServerTimeout
C28_Witness ==
    \E p \in Procs :
        /\ istag[p].pc = "done"
        /\ istag[p].result = "ServerTimeout"
        /\ istag[p].cycles = Attempts
        /\ istag[p].conflicts = Attempts
        /\ istag[p].wrote = 0

\* both calls are Create calls for the same tag, both have returned, and no
\* other client wrote the stream and no store call failed meanwhile
TwoCreatesAlone ==
    /\ streamWrites = 0
    /\ streamErrors = 0
    /\ \A p \in Procs : istag[p].op = "Create" /\ istag[p].pc = "done"
    /\ \A p, q \in Procs : istag[p].tag = istag[q].tag

\* C29: of two concurrent ImageStreamTag Create calls for the same stream and
\* tag against a compare-and-swap store at most one returns success and the
\* other returns AlreadyExists (or ServerTimeout); and a Create for a tag that is
\* already among the stream's spec tags returns AlreadyExists without writing the
\* stream.
C29_OneCreateSucceeds ==
    [][ /\ (TwoCreatesAlone' =>
               /\ \A p, q \in Procs :
                      p # q /\ istag'[p].result = "Success" =>
                          istag'[q].result \in {"AlreadyExists", "ServerTimeout"}
               /\ \A p \in Procs :
                      istag'[p].result \in {"Success", "AlreadyExists", "ServerTimeout"})
        /\ \A p \in Procs :
               (/\ GetStep(p)
                /\ istag[p].op = "Create"
                /\ imageStream.exists
                /\ istag[p].tag \in imageStream.spec
                /\ istag'[p].result # "InternalError") =>
                   /\ istag'[p].pc = "done"
                   /\ istag'[p].result = "AlreadyExists"
                   /\ istag'[p].wrote = istag[p].wrote
                   /\ imageStream' = imageStream ]_vars

\* the same for two Create calls whose istag.Tag is set
C29_OneCreateWithTagSucceeds ==
    (TwoCreatesAlone /\ \A p \in Procs : istag[p].hasTag) =>
        \A p, q \in Procs :
            p # q /\ istag[p].result = "Success" =>
                istag[q].result \in {"AlreadyExists", "ServerTimeout"}

(* ------------ C26, C27: the cache under concurrent resolutions --------- *)
\* C26: every image returned from the cache was read from the store less than
\* one expiration (one minute) before the clock reading of the call that serves
\* it, whichever resolution put it into the cache (DockerImage digest,
\* ImageStreamTag, ImageStreamImage) and however the resolutions interleave; and
\* a call that is served from the cache leaves the cache as it was.
C26_StalenessBound ==
    [][ \A p \in Procs :
          (resolving'[p].pc = "done" /\ resolving'[p].hit) =>
              /\ resolving'[p].now - resolving'[p].read < expiration
              /\ resolving'[p] # resolving[p] => cache' = cache ]_vars

\* the store read of the resolution has failed in this step
StoreReadFailed(p) == resolving[p].pc = "fetch" /\ resolving'[p].pc = "done"

\* C27: a resolution whose store read fails leaves the cache exactly as it was
\* and returns no image, neither a fresh one nor the expired entry of the digest;
\* for a reference with a digest it returns the store's error and nil attributes;
\* and the cache changes only when a resolution has read its image from the store.
C27_FailedReadLeavesCache ==
    [][ /\ \A p \in Procs :
              StoreReadFailed(p) =>
                  /\ cache' = cache
                  /\ ~resolving'[p].hit
                  /\ resolving'[p].image = NoImage
                  /\ resolving'[p].kind = "DockerImage" =>
                         /\ resolving'[p].err = resolving'[p].got
                         /\ resolving'[p].err # NoError
                         /\ resolving'[p].nil
        /\ cache' # cache =>
              \E p \in Procs : /\ resolving[p].pc = "add"
                               /\ resolving'[p].pc = "done"
                               /\ resolving'[p].err = NoError ]_vars

\* a resolution of a reference with a digest found the entry of the digest
\* expired, its store read failed, and it returned the error
C27_Witness ==
    \E p \in Procs :
        /\ resolving[p].pc = "done"
        /\ resolving[p].kind = "DockerImage"
        /\ resolving[p].err = Unavailable
        /\ resolving[p].nil
        /\ cache[Good].present
        /\ ~Before(resolving[p].now, cache[Good].expires)

(* ------------------- C23: the cache is a bounded LRU ------------------- *)
\* the step resolves a digest against the LRU
Resolves == lru' # lru \/ (resolved'.called /\ ~resolved.called)
\* the LRU without the element of the key
Others(l, key) == IF Position(l, key) = 0 THEN l ELSE Without(l, Position(l, key))
Expired(entry) == ~Before(now, entry.expires)

\* C23: the cache never holds more than its 128 entries and no digest twice; a
\* resolution makes its digest the most recently used and keeps the other
\* entries as they were and in their order, except that an insertion into the
\* full cache removes the one least recently used; the entry of the digest is
\* kept as it is (a hit) or replaced by a whole new entry, expiration and image,
\* and only if it had expired; an expired entry is passed over by the lookup,
\* and nothing but a resolution changes the cache.
C23_BoundedLRU ==
    [][ /\ Len(lru') <= size
        /\ Cardinality(Keys(lru')) = Len(lru')
        /\ lru' # lru => resolved'.called
        /\ Resolves =>
              LET d == resolved'.ref.ID
                  i == Position(lru, d)
                  kept == Others(lru, d)
                  evicts == i = 0 /\ Len(lru) = size
              IN  /\ lru'[1].key = d
                  /\ Tail(lru') = SubSeq(kept, 1, Len(kept) - (IF evicts THEN 1 ELSE 0))
                  /\ evicts => lru[size].key \notin Keys(lru')
                  /\ i # 0 /\ ~Expired(lru[i].value) =>
                         /\ lru'[1].value = lru[i].value
                         /\ resolved'.gets = << >>
                         /\ resolved'.attrs.Image = lru[i].value.image
                  /\ i = 0 \/ Expired(lru[i].value) =>
                         /\ lru'[1].value = Entry(now + expiration, StoredImage(d))
                         /\ resolved'.gets = <<"images">>
                         /\ resolved'.attrs.Image = StoredImage(d) ]_vars

\* the cache is full, the first digest has been evicted, an entry that has
\* expired is still in the cache, and another has been replaced since
C23_Witness ==
    /\ Len(lru) = size
    /\ 1 \notin Keys(lru)
    /\ \E i \in 1..Len(lru) : Expired(lru[i].value)
    /\ \E i \in 1..Len(lru) : lru[i].key <= size /\ lru[i].value.expires > expiration

=============================================================================
